---- MODULE Spec2Model ----
(***************************************************************************)
(* The WebSocket receiver of websocket-server (receiver.rs) on top of the  *)
(* frame reader of websocket-core (dataframe.rs, protocol/header.rs).      *)
(*                                                                         *)
(* A Receiver reads frames from a byte reader.  One step of the model is   *)
(* one blocking read of recv_message_dataframes together with everything   *)
(* the call does until it blocks again or returns.  The bytes the reader   *)
(* hands out for a frame are an input of the step.                         *)
(***************************************************************************)
EXTENDS Integers, Sequences, FiniteSets, TLC

(***************************************************************************)
(* Bounds of the model.                                                    *)
(***************************************************************************)
\* Frames the reader delivers successfully in one behaviour.
MaxWire == 3
\* receiver.rs:14 is 1024*1024; the model keeps the comparison and scales
\* the number down so that the limit is reached.
MAX_DATAFRAMES_IN_ONE_MESSAGE == 3
\* Length of the non-empty payload the peer sends in full.
MaxPayload == 2

(***************************************************************************)
(* Program constants.                                                      *)
(***************************************************************************)
DEFAULT_MAX_DATAFRAME_SIZE == 104857600
DEFAULT_MAX_MESSAGE_SIZE == 209715200
PER_DATAFRAME_OVERHEAD == 64

(***************************************************************************)
(* Bytes.                                                                  *)
(***************************************************************************)
Min(a, b) == IF a <= b THEN a ELSE b

Take(s, n) == SubSeq(s, 1, Min(n, Len(s)))

Drop(s, n) == SubSeq(s, n + 1, Len(s))

RECURSIVE XorBits(_, _, _)
XorBits(a, b, n) ==
    IF n = 0 THEN 0
    ELSE ((a + b) % 2) + 2 * XorBits(a \div 2, b \div 2, n - 1)

\* u8 ^ u8
ByteXor(a, b) == XorBits(a, b, 8)

\* u16::from_be_bytes
read_u16(b) == b[1] * 256 + b[2]

RECURSIVE BeValue(_)
BeValue(b) ==
    IF Len(b) = 0 THEN 0
    ELSE BeValue(SubSeq(b, 1, Len(b) - 1)) * 256 + b[Len(b)]

\* What stands for every u64 of 2^31 and more: the largest integer the
\* checker computes with.  It is above every length, limit and threshold
\* the model compares it with, as the value it stands for is.
U64_HIGH == 2147483647

\* u64::from_be_bytes
read_u64(b) ==
    IF (\E i \in 1..4 : b[i] # 0) \/ b[5] >= 128
    THEN U64_HIGH
    ELSE BeValue(SubSeq(b, 5, 8))

RECURSIVE BeBytes(_, _)
\* to_be_bytes of an integer of the given width in bytes.
BeBytes(n, width) ==
    IF width = 0 THEN << >>
    ELSE BeBytes(n \div 256, width - 1) \o <<n % 256>>

\* u16::to_be_bytes
write_u16(n) == BeBytes(n, 2)

\* u64::to_be_bytes
write_u64(n) == BeBytes(n, 8)

(***************************************************************************)
(* protocol/header.rs                                                      *)
(***************************************************************************)
FIN == 128
RSV1 == 64
RSV2 == 32
RSV3 == 16

\* DataFrameFlags::from_bits_truncate: the four known bits of the byte.
from_bits_truncate(byte) == byte - (byte % 16)

\* DataFrameFlags::contains for a single-bit flag.
contains(flags, bit) == (flags \div bit) % 2 = 1

\* Option<[u8; 4]>: None is the empty sequence.
None == << >>

HeaderErr(kind, msg, used) ==
    [ok |-> FALSE, kind |-> kind, msg |-> msg, flags |-> 0, opcode |-> 0,
     mask |-> None, len |-> 0, used |-> used]

\* read_exact on a reader that runs dry.
HeaderEof(s) == HeaderErr("Io", "UnexpectedEof", Len(s))

\* Variant: the key byte is added to the data byte.
mask_data_Adding(mask, data) ==
    [i \in 1..Len(data) |-> (data[i] + mask[((i - 1) % 4) + 1]) % 256]

\* mask_data(mask, data): byte i is XORed with key byte i mod 4.
mask_data(mask, data) ==
    [i \in 1..Len(data) |-> ByteXor(data[i], mask[((i - 1) % 4) + 1])]

\* Variant: control frames are read like data frames.
HeaderReadTail_ControlUnchecked(s, flags, opcode, byte1, len, at) ==
    IF byte1 \div 128 = 1
    THEN IF Len(s) < at + 4 THEN HeaderEof(s)
         ELSE [ok |-> TRUE, kind |-> "", msg |-> "", flags |-> flags,
               opcode |-> opcode, mask |-> SubSeq(s, at + 1, at + 4),
               len |-> len, used |-> at + 4]
    ELSE [ok |-> TRUE, kind |-> "", msg |-> "", flags |-> flags,
          opcode |-> opcode, mask |-> None, len |-> len, used |-> at]

\* The tail of DataFrameHeader::read, once the length is decoded:
\* control-frame rules, then the masking key.
HeaderReadTail(s, flags, opcode, byte1, len, at) ==
    IF opcode >= 8 /\ len >= 126
    THEN HeaderErr("DataFrameError", "Control frame length too long", at)
    ELSE IF opcode >= 8 /\ ~contains(flags, FIN)
    THEN HeaderErr("ProtocolError", "Illegal fragmented control frame", at)
    ELSE IF byte1 \div 128 = 1
    THEN IF Len(s) < at + 4 THEN HeaderEof(s)
         ELSE [ok |-> TRUE, kind |-> "", msg |-> "", flags |-> flags,
               opcode |-> opcode, mask |-> SubSeq(s, at + 1, at + 4),
               len |-> len, used |-> at + 4]
    ELSE [ok |-> TRUE, kind |-> "", msg |-> "", flags |-> flags,
          opcode |-> opcode, mask |-> None, len |-> len, used |-> at]

\* Variant: the extended forms are taken whatever value they carry.
DataFrameHeader_read_AnyForm(s) ==
    IF Len(s) < 2 THEN HeaderEof(s)
    ELSE
    LET byte0 == s[1]
        byte1 == s[2]
        flags == from_bits_truncate(byte0)
        opcode == byte0 % 16
        code == byte1 % 128
    IN  IF code <= 125
        THEN HeaderReadTail(s, flags, opcode, byte1, code, 2)
        ELSE IF code = 126
        THEN IF Len(s) < 4 THEN HeaderEof(s)
             ELSE HeaderReadTail(s, flags, opcode, byte1,
                                 read_u16(SubSeq(s, 3, 4)), 4)
        ELSE IF Len(s) < 10 THEN HeaderEof(s)
             ELSE HeaderReadTail(s, flags, opcode, byte1,
                                 read_u64(SubSeq(s, 3, 10)), 10)

\* DataFrameHeader::read on the bytes s the reader still holds.
DataFrameHeader_read(s) ==
    IF Len(s) < 2 THEN HeaderEof(s)
    ELSE
    LET byte0 == s[1]
        byte1 == s[2]
        flags == from_bits_truncate(byte0)
        opcode == byte0 % 16
        code == byte1 % 128
    IN  IF code <= 125
        THEN HeaderReadTail(s, flags, opcode, byte1, code, 2)
        ELSE IF code = 126
        THEN IF Len(s) < 4 THEN HeaderEof(s)
             ELSE LET len == read_u16(SubSeq(s, 3, 4))
                  IN  IF len <= 125
                      THEN HeaderErr("DataFrameError", "Invalid data frame length", 4)
                      ELSE HeaderReadTail(s, flags, opcode, byte1, len, 4)
        ELSE IF Len(s) < 10 THEN HeaderEof(s)
             ELSE LET len == read_u64(SubSeq(s, 3, 10))
                  IN  IF len <= 65535
                      THEN HeaderErr("DataFrameError", "Invalid data frame length", 10)
                      ELSE HeaderReadTail(s, flags, opcode, byte1, len, 10)

\* What DataFrameHeader::write returns and the bytes it has put in the
\* writer.
HeaderWriteErr(kind, msg) ==
    [ok |-> FALSE, kind |-> kind, msg |-> msg, bytes |-> << >>]

\* The 7-bit length code of the second byte.
LengthCode(len) ==
    IF len <= 125 THEN len ELSE IF len <= 65535 THEN 126 ELSE 127

\* The extended length that follows the second byte.
ExtendedLength(len) ==
    IF len >= 126 /\ len <= 65535 THEN write_u16(len % 65536)
    ELSE IF len > 65535 THEN write_u64(len)
    ELSE << >>

\* DataFrameHeader::write into a writer that takes every byte.  The flags
\* hold bits 7..4 and the opcode passed is below 16, so flags.bits | opcode
\* is their sum; so is the MASK bit with the 7-bit length code.
DataFrameHeader_write(header) ==
    IF header.opcode > 15
    THEN HeaderWriteErr("DataFrameError", "Invalid data frame opcode")
    ELSE IF header.opcode >= 8 /\ header.len >= 126
    THEN HeaderWriteErr("DataFrameError", "Control frame length too long")
    ELSE [ok |-> TRUE, kind |-> "", msg |-> "",
          bytes |-> <<header.flags + header.opcode,
                      (IF header.mask # None THEN 128 ELSE 0)
                      + LengthCode(header.len)>>
                    \o ExtendedLength(header.len)
                    \o header.mask]

(***************************************************************************)
(* dataframe.rs                                                            *)
(***************************************************************************)
NoFrame == [finished |-> FALSE, reserved |-> <<FALSE, FALSE, FALSE>>,
            opcode |-> 0, data |-> << >>]

\* The outcome of reading one frame: the frame or the error, the payload
\* length the header declared (0 when the header was not read) and the
\* number of payload bytes taken from the reader.
ReadErr(kind, msg, hdr, declared, taken) ==
    [ok |-> FALSE, kind |-> kind, msg |-> msg, frame |-> NoFrame,
     hdr |-> hdr, declared |-> declared, taken |-> taken]

\* Variant: the payload is unmasked when it is masked, whatever is expected.
read_dataframe_body_AnyMask(header, body, should_be_masked) ==
    [ok |-> TRUE, kind |-> "", msg |-> "",
     frame |-> [finished |-> contains(header.flags, FIN),
                reserved |-> <<contains(header.flags, RSV1),
                               contains(header.flags, RSV2),
                               contains(header.flags, RSV3)>>,
                opcode |-> header.opcode,
                data |-> IF header.mask # None
                         THEN mask_data(header.mask, body)
                         ELSE body],
     hdr |-> TRUE, declared |-> header.len, taken |-> Len(body)]

\* DataFrame::read_dataframe_body
read_dataframe_body(header, body, should_be_masked) ==
    LET finished == contains(header.flags, FIN)
        reserved == <<contains(header.flags, RSV1),
                      contains(header.flags, RSV2),
                      contains(header.flags, RSV3)>>
    IN  IF header.mask # None /\ ~should_be_masked
        THEN ReadErr("DataFrameError", "Expected unmasked data frame",
                     TRUE, header.len, Len(body))
        ELSE IF header.mask = None /\ should_be_masked
        THEN ReadErr("DataFrameError", "Expected masked data frame",
                     TRUE, header.len, Len(body))
        ELSE [ok |-> TRUE, kind |-> "", msg |-> "",
              frame |-> [finished |-> finished, reserved |-> reserved,
                         opcode |-> header.opcode,
                         data |-> IF header.mask # None
                                  THEN mask_data(header.mask, body)
                                  ELSE body],
              hdr |-> TRUE, declared |-> header.len, taken |-> Len(body)]

\* reader.take(header.len).read_to_end(&mut data) and the short-read test.
ReadPayload(s, header, should_be_masked) ==
    LET data == Take(Drop(s, header.used), header.len)
    IN  IF Len(data) < header.len
        THEN ReadErr("Io", "UnexpectedEof", TRUE, header.len, Len(data))
        ELSE read_dataframe_body(header, data, should_be_masked)

\* Variant: a frame that just meets the limit is refused too.
ExceedsLimit_OffByOne(len, limit) == len >= limit

\* The test of the declared length against the limit.
ExceedsLimit(len, limit) == len > limit

\* DataFrame::read_dataframe_with_limit
read_dataframe_with_limit(s, should_be_masked, limit) ==
    LET header == DataFrameHeader_read(s)
    IN  IF ~header.ok
        THEN ReadErr(header.kind, header.msg, FALSE, 0, 0)
        ELSE IF ExceedsLimit(header.len, limit)
        THEN ReadErr("Io", "InvalidData", TRUE, header.len, 0)
        ELSE ReadPayload(s, header, should_be_masked)

\* DataFrame::read_dataframe
read_dataframe(s, should_be_masked) ==
    LET header == DataFrameHeader_read(s)
    IN  IF ~header.ok
        THEN ReadErr(header.kind, header.msg, FALSE, 0, 0)
        ELSE ReadPayload(s, header, should_be_masked)

(***************************************************************************)
(* The peer: the bytes the reader holds when a frame is read.              *)
(***************************************************************************)
\* Masking key of the peer's masked frames.
PeerKey == <<55, 250, 33, 61>>

PeerText == <<72, 101, 108, 108, 111>>

\* The payloads the peer sends in full: none, or a prefix of PeerText.
Payloads == {<< >>, Take(PeerText, MaxPayload)}

\* Continuation, Text, Binary, a reserved data opcode, Close, Ping and a
\* reserved control opcode.
Opcodes == {0, 1, 2, 7, 8, 9, 15}

\* A frame as the peer puts it on the wire (lengths up to 125).
PeerFrame(fin, rsv, opcode, masked, payload) ==
    <<(IF fin THEN FIN ELSE 0) + rsv + opcode,
      (IF masked THEN 128 ELSE 0) + Len(payload)>>
    \o (IF masked THEN PeerKey \o mask_data(PeerKey, payload) ELSE payload)

\* Text, Continuation and Ping frames carry either payload, the other
\* opcodes the empty one.
WellFormedWire ==
    {PeerFrame(fin, 0, op, m, << >>) :
        fin \in BOOLEAN, op \in Opcodes, m \in BOOLEAN}
    \cup {PeerFrame(fin, 0, op, m, p) :
        fin \in BOOLEAN, op \in {0, 1, 9}, m \in BOOLEAN, p \in Payloads}

\* Final frames with reserved bits set.
ReservedWire ==
    {PeerFrame(TRUE, rsv, op, m, << >>) :
        rsv \in {RSV1, RSV2 + RSV3}, op \in {0, 1, 9}, m \in BOOLEAN}

\* Streams that end early, declare more than they hold, or use a length
\* form longer than needed.
BrokenWire ==
    { << >>, <<129>>,
      <<129, 1>>, <<129, 129>> \o PeerKey,
      <<1, 1>>, <<1, 129>> \o PeerKey,
      <<130, 126, 0, 126>>, <<2, 254, 0, 126>> \o PeerKey,
      <<130, 127, 0, 0, 0, 0, 0, 1, 0, 0>>,
      <<130, 126, 0, 1, 72>>, <<130, 127, 0, 0, 0, 0, 0, 0, 255, 255>>,
      <<137, 126, 0, 126>> }

\* A frame that declares one byte more than the peer's longest payload and
\* carries it.
LongWire ==
    {PeerFrame(fin, 0, op, m, Take(PeerText, MaxPayload + 1)) :
        fin \in BOOLEAN, op \in {0, 2}, m \in BOOLEAN}

Wire == WellFormedWire \cup ReservedWire \cup BrokenWire \cup LongWire

(***************************************************************************)
(* receiver.rs                                                             *)
(***************************************************************************)
VARIABLES
    buffer,                  \* Receiver.buffer
    mask,                    \* Receiver.mask
    max_dataframe_size,      \* Receiver.max_dataframe_size
    max_message_size,        \* Receiver.max_message_size
    pc,                      \* "idle" between calls, "first" and "loop" at
                             \* the two reads of recv_message_dataframes
    current_message_length,  \* the local of recv_message_dataframes
    result,                  \* what the last call returned
    lastRead,                \* outcome of the last recv_dataframe
    nread,                   \* history: frames read successfully so far
    wire,                    \* history: wire[i] is TRUE for a control frame
    bufferSeq,               \* history: wire index of each buffered frame
    delivered,               \* history: wire indices of each returned sequence
    failed,                  \* history: some call returned an error
    reads                    \* history: recv_dataframe calls of the current call

vars == <<buffer, mask, max_dataframe_size, max_message_size, pc,
          current_message_length, result, lastRead, nread, wire, bufferSeq,
          delivered, failed, reads>>

config == <<mask, max_dataframe_size, max_message_size>>

\* The header codec on its own: DataFrameHeader::write, DataFrameHeader::read
\* and DataFrame::read_dataframe applied to one input.
VARIABLES
    header,         \* the DataFrameHeader handed to write
    headerWritten,  \* what write returned and put in its writer
    reader,         \* the bytes the reader holds
    expectMasked,   \* should_be_masked of read_dataframe
    headerRead,     \* what DataFrameHeader::read returned
    frameRead,      \* what read_dataframe returned
    hpc             \* "write", "readHeader", "readFrame" or "done"

headerVars == <<header, headerWritten, reader, expectMasked, headerRead,
                frameRead, hpc>>

\* The masker on its own: a DataMasker fed a payload in chunks, and
\* mask_data applied once and twice.
VARIABLES
    masker,         \* DataMasker: key, pos and the bytes its endpoint got
    payload,        \* the payload to be masked
    fed,            \* how many bytes of it write was given so far
    writes,         \* the length of the buffer of each write call so far
    masked,         \* mask_data(key, payload), once computed
    unmasked        \* mask_data(key, masked), once computed

maskerVars == <<masker, payload, fed, writes, masked, unmasked>>

\* A frame on its way from a Sender to a reader: DataFrame::write_to, then
\* DataFrame::read_dataframe on what the writer got.
VARIABLES
    dataframe,      \* the frame handed to send_dataframe
    senderMask,     \* Sender.mask
    genMask,        \* what gen_mask returns when it is called
    payloadFails,   \* write_payload returns an error
    writer,         \* the write_all calls the writer got, each its bytes
    sent,           \* what write_to returned
    receiverMask,   \* should_be_masked of the reader
    received,       \* what read_dataframe returned
    fpc             \* "send", "read" or "done"

frameVars == <<dataframe, senderMask, genMask, payloadFails, writer, sent,
               receiverMask, received, fpc>>

\* A message on its way: Message::serialize, the Receiver reading what the
\* reader holds, and Message::from_dataframes.
VARIABLES
    message,        \* the Message handed to serialize
    messageMask,    \* masked of serialize
    serialized,     \* what serialize returned
    stream,         \* the frames the reader holds, in order, each its bytes
    dataframes,     \* the Vec handed to from_dataframes
    assembled,      \* what from_dataframes returned
    mpc             \* "serialize", "receive", "assemble" or "done"

messageVars == <<message, messageMask, serialized, stream, dataframes, assembled,
                 mpc>>

\* The opening handshake: a Sec-WebSocket-Key and the Sec-WebSocket-Accept
\* derived from it.
VARIABLES
    keyText,        \* the text of the Sec-WebSocket-Key header
    webSocketKey,   \* the WebSocketKey, or the error of from_str
    accept,         \* the WebSocketAccept
    acceptText,     \* the text of the Sec-WebSocket-Accept header
    kpc             \* "new", "parse", "derive", "serialize" or "done"

handshakeVars == <<keyText, webSocketKey, accept, acceptText, kpc>>

codecVars == <<headerVars, maskerVars, frameVars, messageVars, handshakeVars>>

\* The value of a variable in a specification that does not use it.
Unused == "unused"

ReceiverUnused ==
    /\ buffer = Unused /\ mask = Unused /\ max_dataframe_size = Unused
    /\ max_message_size = Unused /\ pc = Unused
    /\ current_message_length = Unused /\ result = Unused
    /\ lastRead = Unused /\ nread = Unused /\ wire = Unused
    /\ bufferSeq = Unused /\ delivered = Unused /\ failed = Unused
    /\ reads = Unused

HeaderUnused ==
    /\ header = Unused /\ headerWritten = Unused /\ reader = Unused
    /\ expectMasked = Unused /\ headerRead = Unused /\ frameRead = Unused
    /\ hpc = Unused

MaskerUnused ==
    /\ masker = Unused /\ payload = Unused /\ fed = Unused
    /\ writes = Unused /\ masked = Unused /\ unmasked = Unused

FrameUnused ==
    /\ dataframe = Unused /\ senderMask = Unused /\ genMask = Unused
    /\ payloadFails = Unused /\ writer = Unused /\ sent = Unused
    /\ receiverMask = Unused /\ received = Unused /\ fpc = Unused

MessageUnused ==
    /\ message = Unused /\ messageMask = Unused /\ serialized = Unused
    /\ stream = Unused /\ dataframes = Unused /\ assembled = Unused
    /\ mpc = Unused

HandshakeUnused ==
    /\ keyText = Unused /\ webSocketKey = Unused /\ accept = Unused
    /\ acceptText = Unused /\ kpc = Unused

\* Small limits a receiver is built with: a frame limit the peer's payload
\* just meets, and message limits of one byte and of two frames' overhead
\* plus one payload.
SmallDataframeSize == MaxPayload

SmallMessageSizes == {1, 2 * PER_DATAFRAME_OVERHEAD + MaxPayload}

RECURSIVE SumLen(_)
\* self.buffer.iter().map(|x| x.data.len()).sum()
SumLen(frames) ==
    IF frames = << >> THEN 0
    ELSE Len(frames[1].data) + SumLen(Tail(frames))

\* Receiver::new_with_limits.  The limits of the model are below 2^31, where
\* .min(u32::MAX as usize) as u32 leaves its argument as it is.
new_with_limits(m, mds, mms) ==
    [buffer |-> << >>, mask |-> m,
     max_dataframe_size |-> mds,
     max_message_size |-> mms]

\* Receiver::new
new(m) ==
    new_with_limits(m, DEFAULT_MAX_DATAFRAME_SIZE, DEFAULT_MAX_MESSAGE_SIZE)

\* The receivers of the model.
Receivers ==
    {new(TRUE)}
    \cup {new_with_limits(FALSE, SmallDataframeSize, mms) : mms \in SmallMessageSizes}

NoResult == [kind |-> "None", err |-> "", msg |-> "", frames |-> << >>,
             seqs |-> << >>, site |-> ""]

\* Ok(frames); site tells the return statement: "control" is line 89,
\* "message" is line 113.
OkResult(frames, seqs, site) ==
    [kind |-> "Ok", err |-> "", msg |-> "", frames |-> frames,
     seqs |-> seqs, site |-> site]

ErrResult(err, msg) ==
    [kind |-> "Err", err |-> err, msg |-> msg, frames |-> << >>,
     seqs |-> << >>, site |-> ""]

NoRead == ReadErr("", "", FALSE, 0, 0)

\* The receiver r before its first call.
ReceiverInit(r) ==
    /\ buffer = r.buffer
    /\ mask = r.mask
    /\ max_dataframe_size = r.max_dataframe_size
    /\ max_message_size = r.max_message_size
    /\ current_message_length = 0
    /\ result = NoResult
    /\ lastRead = NoRead
    /\ nread = 0
    /\ wire = << >>
    /\ bufferSeq = << >>
    /\ delivered = << >>
    /\ failed = FALSE
    /\ reads = 0

Init ==
    /\ \E r \in Receivers : ReceiverInit(r)
    /\ pc = "idle"
    /\ HeaderUnused /\ MaskerUnused /\ FrameUnused /\ MessageUnused
    /\ HandshakeUnused

\* What the next read finds in the reader: any frame of the peer, or, where
\* the reader holds a stream of well-formed frames, the next frame of the
\* stream and nothing at its end.
Readable ==
    IF mpc = Unused THEN Wire
    ELSE IF nread < Len(stream) THEN {stream[nread + 1]}
    ELSE {<< >>}

\* Receiver::recv_dataframe
recv_dataframe(s) == read_dataframe_with_limit(s, mask, max_dataframe_size)

\* Variant: the first frame's opcode is not looked at.
IsContinuation_Never(opcode) == FALSE

\* first.opcode == Opcode::Continuation
IsContinuation(opcode) == opcode = 0

\* Variant: control frames are buffered like fragments.
MatchArm_ControlBuffered(opcode) ==
    IF opcode = 0 \/ opcode \in 8..15 THEN "continuation" ELSE "other"

\* Variant: every data frame is taken for a fragment.
MatchArm_DataAppended(opcode) ==
    IF opcode \in 8..15 THEN "control" ELSE "continuation"

\* The arms of `match next.opcode as u8`.
MatchArm(opcode) ==
    IF opcode = 0 THEN "continuation"
    ELSE IF opcode \in 8..15 THEN "control"
    ELSE "other"

\* Variant: the frame is put in front.
Push_Front(buf, frame) == <<frame>> \o buf

\* Vec::push
Push(buf, frame) == Append(buf, frame)

\* Variant: the buffer is copied out, not moved out.
Replaced_Kept(buf) == buf

\* What std::mem::replace(&mut self.buffer, Vec::new()) leaves in the buffer.
Replaced(buf) == << >>

\* The length the call starts from: the payloads already buffered.
StartLength(buf) == SumLen(buf)

\* Variant: the limit itself is let through.
CountExceeded_Strict(n) == n > MAX_DATAFRAMES_IN_ONE_MESSAGE

\* self.buffer.len() >= MAX_DATAFRAMES_IN_ONE_MESSAGE
CountExceeded(n) == n >= MAX_DATAFRAMES_IN_ONE_MESSAGE

\* current_message_length >= self.max_message_size as usize
SizeExceeded(length, max) == length >= max

\* The history of a successful read.
Recorded(r) ==
    /\ nread' = nread + 1
    /\ wire' = Append(wire, r.frame.opcode >= 8)

\* Variant: a failed call drops what was buffered.
ReturnErr_Clearing(err, msg) ==
    /\ pc' = "idle"
    /\ current_message_length' = 0
    /\ result' = ErrResult(err, msg)
    /\ failed' = TRUE
    /\ buffer' = << >>
    /\ bufferSeq' = << >>
    /\ UNCHANGED delivered

\* return Err(..) or `?`: the call ends, the receiver is left as it is.
ReturnErr(err, msg) ==
    /\ pc' = "idle"
    /\ current_message_length' = 0
    /\ result' = ErrResult(err, msg)
    /\ failed' = TRUE
    /\ UNCHANGED <<buffer, bufferSeq, delivered>>

\* return Err(..) after the frame was pushed: the frame stays buffered.
ReturnErrKeeping(buf, seqs, err, msg) ==
    /\ pc' = "idle"
    /\ current_message_length' = 0
    /\ result' = ErrResult(err, msg)
    /\ failed' = TRUE
    /\ buffer' = buf
    /\ bufferSeq' = seqs
    /\ UNCHANGED delivered

\* Ok(std::mem::replace(&mut self.buffer, Vec::new()))
ReturnMessage(buf, seqs) ==
    /\ pc' = "idle"
    /\ current_message_length' = 0
    /\ result' = OkResult(buf, seqs, "message")
    /\ buffer' = Replaced(buf)
    /\ bufferSeq' = IF Replaced(buf) = << >> THEN << >> ELSE seqs
    /\ delivered' = Append(delivered, seqs)
    /\ UNCHANGED failed

\* Entry of recv_message_dataframes, up to the first read.
Call ==
    /\ pc = "idle"
    /\ nread < MaxWire
    /\ current_message_length' = StartLength(buffer)
    /\ pc' = IF buffer = << >> THEN "first" ELSE "loop"
    /\ result' = NoResult
    /\ lastRead' = NoRead
    /\ reads' = 0
    /\ UNCHANGED <<buffer, config, nread, wire, bufferSeq, delivered, failed>>
    /\ UNCHANGED codecVars

\* The read of the first frame of a message and what follows it.
ReadFirst ==
    /\ pc = "first"
    /\ \E s \in Readable :
         LET r == recv_dataframe(s)
             first == r.frame
             length == current_message_length + Len(first.data)
                       + PER_DATAFRAME_OVERHEAD
             buf == Push(buffer, first)
             seqs == Push(bufferSeq, nread + 1)
         IN  /\ lastRead' = r
             /\ reads' = reads + 1
             /\ IF ~r.ok
                THEN /\ ReturnErr(r.kind, r.msg)
                     /\ UNCHANGED <<nread, wire>>
                ELSE /\ Recorded(r)
                     /\ IF IsContinuation(first.opcode)
                        THEN ReturnErr("ProtocolError",
                                 "Unexpected continuation data frame opcode")
                        ELSE IF first.finished
                        THEN ReturnMessage(buf, seqs)
                        ELSE /\ pc' = "loop"
                             /\ current_message_length' = length
                             /\ buffer' = buf
                             /\ bufferSeq' = seqs
                             /\ UNCHANGED <<result, delivered, failed>>
    /\ UNCHANGED <<config, codecVars>>

\* One turn of `while !finished`.
ReadNext ==
    /\ pc = "loop"
    /\ \E s \in Readable :
         LET r == recv_dataframe(s)
             next == r.frame
             length == current_message_length + Len(next.data)
                       + PER_DATAFRAME_OVERHEAD
             buf == Push(buffer, next)
             seqs == Push(bufferSeq, nread + 1)
         IN  /\ lastRead' = r
             /\ reads' = reads + 1
             /\ IF ~r.ok
                THEN /\ ReturnErr(r.kind, r.msg)
                     /\ UNCHANGED <<nread, wire>>
                ELSE
                /\ Recorded(r)
                /\ IF MatchArm(next.opcode) = "control"
                   THEN /\ pc' = "idle"
                        /\ current_message_length' = 0
                        /\ result' = OkResult(<<next>>, <<nread + 1>>, "control")
                        /\ delivered' = Append(delivered, <<nread + 1>>)
                        /\ UNCHANGED <<buffer, bufferSeq, failed>>
                   ELSE IF MatchArm(next.opcode) = "other"
                   THEN ReturnErr("ProtocolError", "Unexpected data frame opcode")
                   ELSE IF next.finished
                   THEN ReturnMessage(buf, seqs)
                   ELSE IF CountExceeded(Len(buf))
                   THEN ReturnErrKeeping(buf, seqs, "ProtocolError",
                             "Exceeded count of data frames in one WebSocket message")
                   ELSE IF SizeExceeded(length, max_message_size)
                   THEN ReturnErrKeeping(buf, seqs, "ProtocolError",
                             "Exceeded maximum WebSocket message size")
                   ELSE /\ pc' = "loop"
                        /\ current_message_length' = length
                        /\ buffer' = buf
                        /\ bufferSeq' = seqs
                        /\ UNCHANGED <<result, delivered, failed>>
    /\ UNCHANGED <<config, codecVars>>

Next == Call \/ ReadFirst \/ ReadNext

Spec == Init /\ [][Next]_<<vars, codecVars>>

(***************************************************************************)
(* Helpers of the properties.                                              *)
(***************************************************************************)
Last(s) == s[Len(s)]

Increasing(s) == \A i \in 1..(Len(s) - 1) : s[i] < s[i + 1]

Elements(s) == {s[i] : i \in DOMAIN s}

\* How often wire index k was handed out or is held in the buffer.
Occurrences(k) ==
    Cardinality({i \in DOMAIN bufferSeq : bufferSeq[i] = k})
    + Cardinality({<<i, j>> \in (DOMAIN delivered) \X (1..MaxWire + 1) :
                      j <= Len(delivered[i]) /\ delivered[i][j] = k})

Returned == pc = "idle" /\ result.kind = "Ok"

\* The step read a frame with success.
ReadOk == nread' = nread + 1 /\ lastRead'.ok

\* The step appended the frame it read to the buffer and left it there.
Appended == ReadOk /\ buffer' = Append(buffer, lastRead'.frame)

\* Payload lengths plus the overhead of every frame.
Accumulated(frames) == SumLen(frames) + PER_DATAFRAME_OVERHEAD * Len(frames)

FailedWith(res, err, msg) ==
    res.kind = "Err" /\ res.err = err /\ res.msg = msg

(***************************************************************************)
(* C1: a control frame read while a message is assembled is returned alone *)
(* and leaves the buffer as it was; the call that later reads the FIN      *)
(* frame returns all fragments of the message, those read before the       *)
(* control frame and those read after it, as one sequence.                 *)
(***************************************************************************)
C1_ControlStep ==
    (buffer # << >> /\ ReadOk /\ lastRead'.frame.opcode >= 8)
        => /\ pc' = "idle"
           /\ result'.kind = "Ok"
           /\ result'.frames = <<lastRead'.frame>>
           /\ result'.seqs = <<nread'>>
           /\ buffer' = buffer

C1_WholeMessage ==
    (Returned /\ ~failed /\ result.frames[1].opcode < 8)
        => /\ Len(result.frames) = Len(result.seqs)
           /\ Elements(result.seqs)
                = {k \in result.seqs[1]..Last(result.seqs) : ~wire[k]}
           /\ Increasing(result.seqs)
           /\ \A i \in 2..Len(result.frames) : result.frames[i].opcode = 0
           /\ Last(result.frames).finished

C1_ControlInterleaved == []C1_WholeMessage /\ [][C1_ControlStep]_vars

\* A message whose fragments 1 and 3 were read around control frame 2.
C1_Witness ==
    /\ Returned /\ ~failed
    /\ result.seqs = <<1, 3>>
    /\ delivered = <<<<2>>, <<1, 3>>>>

(***************************************************************************)
(* C2: as long as every call succeeds, each returned sequence holds its    *)
(* frames in wire order, the sequences are returned in the order of their  *)
(* last frames, and every frame read is returned exactly once or is still  *)
(* buffered.                                                               *)
(***************************************************************************)
C2_WireOrder ==
    ~failed =>
        /\ \A i \in DOMAIN delivered :
             delivered[i] # << >> /\ Increasing(delivered[i])
        /\ \A i, j \in DOMAIN delivered :
             i < j => Last(delivered[i]) < Last(delivered[j])
        /\ Increasing(bufferSeq)
        /\ Len(bufferSeq) = Len(buffer)
        /\ \A k \in 1..nread : Occurrences(k) = 1
        /\ Returned => (result.seqs = Last(delivered)
                        /\ Len(result.frames) = Len(result.seqs))

C2_Witness ==
    /\ ~failed /\ Returned
    /\ Len(delivered) = 2
    /\ Len(delivered[1]) = 1 /\ Len(delivered[2]) = 2
    /\ delivered[1][1] > delivered[2][1]

(***************************************************************************)
(* C3 as stated: after every successful return the buffer is empty.        *)
(***************************************************************************)
C3_AlwaysDrained == Returned => buffer = << >>

(***************************************************************************)
(* C3 as amended: after a successful return of a completed message (or of  *)
(* a control frame read while no message was assembled) the buffer is      *)
(* empty; after the return of a control frame read while a message was     *)
(* assembled the buffer still holds that message's fragments.              *)
(***************************************************************************)
C3_DrainedOnMessage ==
    Returned => IF result.site = "message"
                THEN buffer = << >>
                ELSE /\ buffer # << >>
                     /\ Len(result.frames) = 1
                     /\ result.frames[1].opcode >= 8

C3_Witness ==
    /\ Returned /\ result.site = "message"
    /\ Len(result.frames) = 2
    /\ buffer = << >>

(***************************************************************************)
(* C4: with an empty buffer, a Continuation frame read makes the call fail *)
(* with ProtocolError("Unexpected continuation data frame opcode") and the *)
(* buffer stays empty.                                                     *)
(***************************************************************************)
C4_StrayContinuation ==
    [][(buffer = << >> /\ ReadOk /\ lastRead'.frame.opcode = 0)
        => /\ pc' = "idle"
           /\ FailedWith(result', "ProtocolError",
                         "Unexpected continuation data frame opcode")
           /\ buffer' = << >>]_vars

C4_Witness ==
    /\ pc = "idle"
    /\ lastRead.ok /\ lastRead.frame.opcode = 0
    /\ result.msg = "Unexpected continuation data frame opcode"
    /\ buffer = << >>

(***************************************************************************)
(* C5: with a non-empty buffer, a data frame read whose opcode is not      *)
(* Continuation (1 to 7) makes the call fail with                          *)
(* ProtocolError("Unexpected data frame opcode"), whatever its FIN bit,    *)
(* and the frame is not added to the buffer.                               *)
(***************************************************************************)
C5_DataDuringAssembly ==
    [][(buffer # << >> /\ ReadOk /\ lastRead'.frame.opcode \in 1..7)
        => /\ pc' = "idle"
           /\ FailedWith(result', "ProtocolError", "Unexpected data frame opcode")
           /\ buffer' = buffer]_vars

C5_Witness ==
    /\ pc = "idle"
    /\ lastRead.ok /\ lastRead.frame.opcode = 7 /\ lastRead.frame.finished
    /\ result.msg = "Unexpected data frame opcode"
    /\ buffer # << >>

(***************************************************************************)
(* C6 as stated: every returned sequence has a total payload length of at  *)
(* most max_message_size.                                                  *)
(***************************************************************************)
C6_MessageBounded ==
    Returned => SumLen(result.frames) <= max_message_size

(***************************************************************************)
(* C7 as stated: after a non-final frame is appended (the first frame      *)
(* included) the call fails with ProtocolError when the accumulated size   *)
(* is greater than max_message_size and goes on reading when it is less    *)
(* or equal (unless the frame count has reached its limit).                *)
(***************************************************************************)
ProtocolFailed(res) == res.kind = "Err" /\ res.err = "ProtocolError"

C7_SizeLimit ==
    [][Appended
        => IF Accumulated(buffer') > max_message_size
           THEN pc' = "idle" /\ ProtocolFailed(result')
           ELSE \/ pc' = "loop"
                \/ /\ Len(buffer') >= MAX_DATAFRAMES_IN_ONE_MESSAGE
                   /\ ProtocolFailed(result')]_vars

(***************************************************************************)
(* C8 as stated: after a non-final frame is appended the call fails with   *)
(* ProtocolError when more than MAX_DATAFRAMES_IN_ONE_MESSAGE frames are   *)
(* buffered, and is not stopped by the count when at most that many are.   *)
(***************************************************************************)
CountMsg == "Exceeded count of data frames in one WebSocket message"

C8_CountLimit ==
    [][Appended
        => IF Len(buffer') > MAX_DATAFRAMES_IN_ONE_MESSAGE
           THEN pc' = "idle" /\ ProtocolFailed(result')
           ELSE ~FailedWith(result', "ProtocolError", CountMsg)]_vars

(***************************************************************************)
(* C8 as amended: after a non-final frame is appended the call fails with  *)
(* ProtocolError when MAX_DATAFRAMES_IN_ONE_MESSAGE frames or more are     *)
(* buffered, and is not stopped by the count when fewer are: it goes on    *)
(* reading unless the size limit stops it.                                 *)
(***************************************************************************)
C8_CountLimitReached ==
    [][Appended
        => IF Len(buffer') >= MAX_DATAFRAMES_IN_ONE_MESSAGE
           THEN pc' = "idle" /\ FailedWith(result', "ProtocolError", CountMsg)
           ELSE \/ pc' = "loop" /\ result'.kind = "None"
                \/ FailedWith(result', "ProtocolError",
                              "Exceeded maximum WebSocket message size")]_vars

\* The call stopped by the count with exactly the limit buffered.
C8_Witness ==
    /\ pc = "idle"
    /\ FailedWith(result, "ProtocolError", CountMsg)
    /\ Len(buffer) = MAX_DATAFRAMES_IN_ONE_MESSAGE
    /\ ~lastRead.frame.finished

(***************************************************************************)
(* C9 as stated: the accumulated size the call compares with the limit is  *)
(* the sum of the payload lengths of all frames of the current message     *)
(* plus 64 for each of them, also for frames buffered by an earlier call.  *)
(***************************************************************************)
C9_AccumulatedSize ==
    pc = "loop" => current_message_length = Accumulated(buffer)

(***************************************************************************)
(* C10: a declared payload length greater than the frame limit fails with  *)
(* an Io error of kind InvalidData before any payload byte is taken; a     *)
(* declared length up to the limit never fails that way; so every frame    *)
(* read, buffered or returned has at most max_dataframe_size payload       *)
(* bytes.                                                                  *)
(***************************************************************************)
C10_FrameLimit ==
    /\ (lastRead.hdr /\ lastRead.declared > max_dataframe_size)
          => /\ ~lastRead.ok
             /\ lastRead.kind = "Io" /\ lastRead.msg = "InvalidData"
             /\ lastRead.taken = 0
    /\ (lastRead.hdr /\ lastRead.declared <= max_dataframe_size)
          => ~(lastRead.kind = "Io" /\ lastRead.msg = "InvalidData")
    /\ lastRead.ok
          => /\ Len(lastRead.frame.data) = lastRead.declared
             /\ Len(lastRead.frame.data) <= max_dataframe_size
    /\ \A i \in DOMAIN buffer : Len(buffer[i].data) <= max_dataframe_size
    /\ \A i \in DOMAIN result.frames :
          Len(result.frames[i].data) <= max_dataframe_size

\* A frame one byte over the limit, its payload present in the reader.
C10_Witness ==
    /\ lastRead.hdr /\ ~lastRead.ok
    /\ lastRead.declared = max_dataframe_size + 1
    /\ lastRead.msg = "InvalidData"
    /\ lastRead.taken = 0

(***************************************************************************)
(* protocol/dataframe.rs and action/sender.rs: a frame from a Sender to a  *)
(* reader.                                                                 *)
(***************************************************************************)
\* DataMasker::new
DataMasker_new(key, endpoint) == [key |-> key, pos |-> 0, endpoint |-> endpoint]

\* Variant: every write starts at the first key byte again.
DataMasker_write_Restarting(m, buf) ==
    [key |-> m.key, pos |-> Len(buf) % 4,
     endpoint |-> m.endpoint \o mask_data(m.key, buf)]

\* DataMasker::write on an endpoint that takes every byte: byte i of buf
\* meets the key byte at pos + i (mod 4), the loop having advanced pos once
\* for each byte before it.
DataMasker_write(m, buf) ==
    [key |-> m.key,
     pos |-> (m.pos + Len(buf)) % 4,
     endpoint |-> m.endpoint
                  \o [i \in 1..Len(buf) |->
                        ByteXor(buf[i], m.key[((m.pos + i - 1) % 4) + 1])]]

\* Variant: the length bytes are counted as header.rs wrote them before the
\* 16-bit form was kept for lengths from 126 on.
LengthBytes_From125(size) ==
    IF size < 125 THEN 1 ELSE IF size <= 65535 THEN 3 ELSE 9

\* The match of frame_size on self.size().
LengthBytes(size) ==
    IF size <= 125 THEN 1 ELSE IF size <= 65535 THEN 3 ELSE 9

\* DataFrame::frame_size
frame_size(f, is_masked) ==
    1 + LengthBytes(Len(f.data)) + (IF is_masked THEN 4 ELSE 0) + Len(f.data)

\* The flags write_to builds from is_last() and reserved().
FrameFlags(f) ==
    (IF f.finished THEN FIN ELSE 0)
    + (IF f.reserved[1] THEN RSV1 ELSE 0)
    + (IF f.reserved[2] THEN RSV2 ELSE 0)
    + (IF f.reserved[3] THEN RSV3 ELSE 0)

\* What write_to returns, and the write_all calls its writer got.
WriteToErr(kind, msg) ==
    [ok |-> FALSE, kind |-> kind, msg |-> msg, calls |-> << >>]

\* Variant: the header goes to the writer before the payload is written.
WriteToCalls_HeaderFirst(head, body) == <<head, body>>

\* writer.write_all(data.as_slice()): data is the header with the payload
\* after it.
WriteToCalls(head, body) == <<head \o body>>

\* DataFrame::write_to.  key is what gen_mask returns; fails tells that
\* write_payload returns an error.
write_to(f, is_masked, key, fails) ==
    LET masking_key == IF is_masked THEN key ELSE None
        hdr == [flags |-> FrameFlags(f), opcode |-> f.opcode,
                mask |-> masking_key, len |-> Len(f.data)]
        h == DataFrameHeader_write(hdr)
        body == IF masking_key # None
                THEN DataMasker_write(DataMasker_new(masking_key, << >>),
                                      f.data).endpoint
                ELSE f.data
    IN  IF ~h.ok THEN WriteToErr(h.kind, h.msg)
        ELSE IF fails THEN WriteToErr("Io", "write_payload")
        ELSE [ok |-> TRUE, kind |-> "", msg |-> "",
              calls |-> WriteToCalls(h.bytes, body)]

\* Sender::send_dataframe
send_dataframe(is_masked, f, key, fails) == write_to(f, is_masked, key, fails)

\* The bytes a writer holds after the calls it got.
RECURSIVE Concat(_)
Concat(calls) ==
    IF calls = << >> THEN << >> ELSE Head(calls) \o Concat(Tail(calls))

\* A payload of n bytes.
Pay(n) == [i \in 1..n |-> PeerText[((i - 1) % 5) + 1]]

\* The payload lengths on either side of the two thresholds of the length
\* field.
SmallLengths == {0, 1, 125, 126, 127}

LargeLengths == {65535, 65536}

\* The reserved bits of the frames sent.
ReservedBits ==
    {<<FALSE, FALSE, FALSE>>, <<TRUE, FALSE, FALSE>>,
     <<FALSE, TRUE, TRUE>>, <<TRUE, TRUE, TRUE>>}

\* The masking keys gen_mask returns in the model.
GenMasks == {PeerKey, <<0, 0, 0, 255>>}

\* The opcodes of the frames with a large payload: the first and the last
\* data opcode, Binary, and every control opcode.
LargeOpcodes == {0, 2, 7} \cup 8..15

\* The frames handed to the Sender: every opcode with every flag and a small
\* payload, and final frames with a large one.
SentFrames ==
    {[finished |-> fin, reserved |-> rsv, opcode |-> op, data |-> Pay(n)] :
        fin \in BOOLEAN, rsv \in ReservedBits, op \in 0..15,
        n \in SmallLengths}
    \cup {[finished |-> TRUE, reserved |-> <<FALSE, FALSE, FALSE>>,
           opcode |-> op, data |-> Pay(n)] :
        op \in LargeOpcodes, n \in LargeLengths}

NotSent == WriteToErr("", "")

FrameInit ==
    /\ dataframe \in SentFrames
    /\ senderMask \in BOOLEAN
    /\ genMask \in (IF senderMask
                    THEN (IF Len(dataframe.data) \in LargeLengths
                          THEN {PeerKey} ELSE GenMasks)
                    ELSE {None})
    /\ payloadFails \in (IF Len(dataframe.data) \in LargeLengths
                         THEN {FALSE} ELSE BOOLEAN)
    /\ writer = << >>
    /\ sent = NotSent
    /\ receiverMask = FALSE
    /\ received = NoRead
    /\ fpc = "send"
    /\ ReceiverUnused /\ HeaderUnused /\ MaskerUnused /\ MessageUnused
    /\ HandshakeUnused

\* The Sender sends the frame.
SendDataframe ==
    /\ fpc = "send"
    /\ LET r == send_dataframe(senderMask, dataframe, genMask, payloadFails)
       IN  /\ sent' = r
           /\ writer' = writer \o r.calls
           /\ fpc' = IF r.ok THEN "read" ELSE "done"
    /\ UNCHANGED <<dataframe, senderMask, genMask, payloadFails, receiverMask,
                   received>>
    /\ UNCHANGED <<vars, headerVars, maskerVars, messageVars, handshakeVars>>

\* A reader with either expectation reads what the writer got.
ReadDataframe ==
    /\ fpc = "read"
    /\ \E e \in BOOLEAN :
         /\ receiverMask' = e
         /\ received' = read_dataframe(Concat(writer), e)
    /\ fpc' = "done"
    /\ UNCHANGED <<dataframe, senderMask, genMask, payloadFails, writer, sent>>
    /\ UNCHANGED <<vars, headerVars, maskerVars, messageVars, handshakeVars>>

FrameNext == SendDataframe \/ ReadDataframe

FrameSpec == FrameInit /\ [][FrameNext]_<<vars, codecVars>>

(***************************************************************************)
(* protocol/header.rs on its own: headers written and read back, and the   *)
(* peer's bytes read.                                                      *)
(***************************************************************************)
\* Every value of DataFrameFlags.
AllFlags == {16 * k : k \in 0..15}

\* The lengths of the headers written: both sides of the two thresholds and
\* the largest length the checker computes with exactly.
WrittenLengths == SmallLengths \cup LargeLengths \cup {U64_HIGH - 1}

\* The headers handed to write; opcode 16 does not fit in four bits.
WrittenHeaders ==
    {[flags |-> f, opcode |-> op, mask |-> k, len |-> n] :
        f \in AllFlags, op \in 0..16, k \in {None, PeerKey},
        n \in WrittenLengths}

\* The length fields of the peer's frames: the 7-bit code and the bytes
\* after it.  The 16-bit and 64-bit forms carry values on both sides of
\* what the shorter form holds; the last four 64-bit values are 2^32,
\* 2^63 - 1, 2^63 and 2^64 - 1.
PeerLengths ==
    {[code |-> c, ext |-> << >>] : c \in {0, 1, 125}}
    \cup {[code |-> 126, ext |-> write_u16(v)] :
            v \in {0, 125, 126, 127, 65535}}
    \cup {[code |-> 127, ext |-> write_u64(v)] :
            v \in {0, 125, 126, 65535, 65536, U64_HIGH - 1}}
    \cup {[code |-> 127, ext |-> e] :
            e \in {<<0, 0, 0, 1, 0, 0, 0, 0>>,
                   <<127, 255, 255, 255, 255, 255, 255, 255>>,
                   <<128, 0, 0, 0, 0, 0, 0, 0>>,
                   <<255, 255, 255, 255, 255, 255, 255, 255>>}}

\* The most payload bytes the peer sends after a header.
MaxBody == 127

\* The peer's bytes: a header with any opcode, FIN and RSV1 set or clear,
\* either MASK bit and any of the length fields, then MaxBody bytes.
PeerStream ==
    {<<f + op, (IF m THEN 128 ELSE 0) + l.code>> \o l.ext
       \o (IF m THEN PeerKey ELSE << >>) \o Pay(MaxBody) :
        f \in {0, FIN, FIN + RSV1}, op \in 0..15, m \in BOOLEAN,
        l \in PeerLengths}

NoHeader == [flags |-> 0, opcode |-> 0, mask |-> None, len |-> 0]

NotWritten == HeaderWriteErr("", "")

NotReadHeader == HeaderErr("", "", 0)

HeaderInit ==
    /\ \/ /\ header \in WrittenHeaders
          /\ reader = << >>
          /\ expectMasked = FALSE
          /\ hpc = "write"
       \/ /\ header = NoHeader
          /\ reader \in PeerStream
          /\ expectMasked \in BOOLEAN
          /\ hpc = "readFrame"
    /\ headerWritten = NotWritten
    /\ headerRead = NotReadHeader
    /\ frameRead = NoRead
    /\ ReceiverUnused /\ MaskerUnused /\ FrameUnused /\ MessageUnused
    /\ HandshakeUnused

\* DataFrameHeader::write into an empty writer; what it wrote is handed to
\* a reader.
WriteHeader ==
    /\ hpc = "write"
    /\ LET w == DataFrameHeader_write(header)
       IN  /\ headerWritten' = w
           /\ reader' = w.bytes
           /\ hpc' = IF w.ok THEN "readHeader" ELSE "done"
    /\ UNCHANGED <<header, expectMasked, headerRead, frameRead>>
    /\ UNCHANGED <<vars, maskerVars, frameVars, messageVars, handshakeVars>>

\* DataFrameHeader::read on the bytes write produced.
ReadHeader ==
    /\ hpc = "readHeader"
    /\ headerRead' = DataFrameHeader_read(reader)
    /\ hpc' = "done"
    /\ UNCHANGED <<header, headerWritten, reader, expectMasked, frameRead>>
    /\ UNCHANGED <<vars, maskerVars, frameVars, messageVars, handshakeVars>>

\* DataFrame::read_dataframe on the peer's bytes; headerRead is the header
\* its first statement reads.
ReadFrame ==
    /\ hpc = "readFrame"
    /\ headerRead' = DataFrameHeader_read(reader)
    /\ frameRead' = read_dataframe(reader, expectMasked)
    /\ hpc' = "done"
    /\ UNCHANGED <<header, headerWritten, reader, expectMasked>>
    /\ UNCHANGED <<vars, maskerVars, frameVars, messageVars, handshakeVars>>

HeaderNext == WriteHeader \/ ReadHeader \/ ReadFrame

HeaderSpec == HeaderInit /\ [][HeaderNext]_<<vars, codecVars>>

(***************************************************************************)
(* protocol/header.rs: the masker on its own.                              *)
(***************************************************************************)
\* The longest payload masked and the most write calls one masker gets.
MaxMaskLen == 6

MaxWrites == 4

\* Bytes with no, some and all bits set.
MaskText == <<72, 0, 255, 101, 128, 108, 7, 111, 33>>

MaskPayloads == {Take(MaskText, n) : n \in 0..MaxMaskLen}

MaskKeys == {PeerKey, <<0, 0, 0, 0>>, <<255, 255, 255, 255>>, <<1, 2, 4, 128>>}

MaskerInit ==
    /\ \E k \in MaskKeys : masker = DataMasker_new(k, << >>)
    /\ payload \in MaskPayloads
    /\ fed = 0
    /\ writes = << >>
    /\ masked = << >>
    /\ unmasked = << >>
    /\ ReceiverUnused /\ HeaderUnused /\ FrameUnused /\ MessageUnused
    /\ HandshakeUnused

\* One write call on the masker with the next n bytes of the payload.
MaskerWrite ==
    /\ Len(writes) < MaxWrites
    /\ \E n \in 0..(Len(payload) - fed) :
         /\ masker' = DataMasker_write(masker, SubSeq(payload, fed + 1, fed + n))
         /\ fed' = fed + n
         /\ writes' = Append(writes, n)
    /\ UNCHANGED <<payload, masked, unmasked>>
    /\ UNCHANGED <<vars, headerVars, frameVars, messageVars, handshakeVars>>

\* mask_data on the payload.
MaskData ==
    /\ masked = << >>
    /\ masked' = <<mask_data(masker.key, payload)>>
    /\ UNCHANGED <<masker, payload, fed, writes, unmasked>>
    /\ UNCHANGED <<vars, headerVars, frameVars, messageVars, handshakeVars>>

\* mask_data on what mask_data returned.
MaskDataAgain ==
    /\ masked # << >>
    /\ unmasked = << >>
    /\ unmasked' = <<mask_data(masker.key, masked[1])>>
    /\ UNCHANGED <<masker, payload, fed, writes, masked>>
    /\ UNCHANGED <<vars, headerVars, frameVars, messageVars, handshakeVars>>

MaskerNext == MaskerWrite \/ MaskData \/ MaskDataAgain

MaskerSpec == MaskerInit /\ [][MaskerNext]_<<vars, codecVars>>

(***************************************************************************)
(* Helpers of the codec properties.                                        *)
(***************************************************************************)
\* The reader has read what the Sender's writer got.
ReadBack == fpc = "done" /\ sent.ok

\* The read failed with this error.
ReadFailedWith(r, kind, msg) == ~r.ok /\ r.kind = kind /\ r.msg = msg

\* The read got past the header and found the whole payload: the frame is
\* well formed, whatever its MASK bit.
OtherwiseWellFormed(r) == r.hdr /\ r.taken = r.declared

\* The MASK bit of a frame on the wire.
MaskBit(bytes) == bytes[2] >= 128

(***************************************************************************)
(* C11: reading an otherwise well-formed frame with expectation e succeeds *)
(* exactly when the frame's MASK bit equals e; a masked frame read with    *)
(* e = false fails with DataFrameError("Expected unmasked data frame"), an *)
(* unmasked one read with e = true with DataFrameError("Expected masked    *)
(* data frame").  The MASK bit of a frame a Sender emits is the Sender's   *)
(* mask, so the frame is accepted exactly when the two agree.              *)
(***************************************************************************)
C11_MaskExpectation ==
    (ReadBack /\ OtherwiseWellFormed(received)) =>
        /\ MaskBit(Concat(writer)) = senderMask
        /\ received.ok <=> (senderMask = receiverMask)
        /\ (senderMask /\ ~receiverMask) =>
               ReadFailedWith(received, "DataFrameError",
                              "Expected unmasked data frame")
        /\ (~senderMask /\ receiverMask) =>
               ReadFailedWith(received, "DataFrameError",
                              "Expected masked data frame")

\* A masked frame of a Sender was refused by a reader that expects none.
C11_Witness ==
    /\ ReadBack /\ OtherwiseWellFormed(received)
    /\ senderMask /\ ~receiverMask
    /\ Len(dataframe.data) > 0
    /\ ReadFailedWith(received, "DataFrameError",
                      "Expected unmasked data frame")

(***************************************************************************)
(* C12: for every opcode and every payload of 0, 1, 125, 126, 127, 65535   *)
(* or 65536 bytes, a frame written with mask = m and read with             *)
(* expect_masked = m comes back with its opcode, its FIN and RSV flags and *)
(* its plaintext payload, whatever key was generated, for both values of   *)
(* m.                                                                      *)
(***************************************************************************)
C12_RoundTrip ==
    (ReadBack /\ senderMask = receiverMask) =>
        /\ received.ok
        /\ received.frame = dataframe

\* DataFrameHeader::read has been applied to the bytes in reader.
HeaderReadDone == hpc = "done" /\ headerRead # NotReadHeader

\* The fields of a header on the wire.
OpcodeOf(bytes) == bytes[1] % 16

FinOf(bytes) == bytes[1] >= 128

CodeOf(bytes) == bytes[2] % 128

Ext16(bytes) == SubSeq(bytes, 3, 4)

Ext64(bytes) == SubSeq(bytes, 3, 10)

\* The 64-bit value is 65535 or less: its six leading bytes are zero.
FitsIn16(ext) == \A i \in 1..6 : ext[i] = 0

\* The 64-bit value has its top bit set: it is 2^63 or more.
TopBitSet(ext) == ext[1] >= 128

InvalidLength(r) ==
    ReadFailedWith(r, "DataFrameError", "Invalid data frame length")

(***************************************************************************)
(* C13: the header read refuses every length that is not in its shortest   *)
(* form with DataFrameError("Invalid data frame length"): code 126 with a  *)
(* 16-bit value of 125 or less, code 127 with a 64-bit value of 65535 or   *)
(* less.  It takes code 126 with 126..65535 and code 127 with 65536 and    *)
(* more, so the length code of every header it returns is the one of the   *)
(* shortest form of its length: 126 is read in the 2-byte form only, 65536 *)
(* in the 8-byte form only.                                                *)
(***************************************************************************)
C13_MinimalLength ==
    HeaderReadDone =>
        LET code == CodeOf(reader)
            v16 == read_u16(Ext16(reader))
            data == OpcodeOf(reader) < 8
        IN  /\ (code = 126 /\ v16 <= 125) => InvalidLength(headerRead)
            /\ (code = 127 /\ FitsIn16(Ext64(reader))) =>
                   InvalidLength(headerRead)
            /\ (code = 126 /\ v16 >= 126) =>
                   /\ ~InvalidLength(headerRead)
                   /\ data => (headerRead.ok /\ headerRead.len = v16)
            /\ (code = 127 /\ ~FitsIn16(Ext64(reader))) =>
                   /\ ~InvalidLength(headerRead)
                   /\ data => /\ headerRead.ok
                              /\ headerRead.len = read_u64(Ext64(reader))
            /\ headerRead.ok => code = LengthCode(headerRead.len)

\* The length 65535 in the 8-byte form was refused.
C13_Witness ==
    /\ HeaderReadDone
    /\ CodeOf(reader) = 127
    /\ Ext64(reader) = write_u64(65535)
    /\ InvalidLength(headerRead)

\* The length field of the header on the wire is in its shortest form and
\* says 126 or more.
DeclaresLong(bytes) ==
    \/ CodeOf(bytes) = 126 /\ read_u16(Ext16(bytes)) >= 126
    \/ CodeOf(bytes) = 127 /\ ~FitsIn16(Ext64(bytes))

C15_TopBitClear ==
    (HeaderReadDone /\ headerRead.ok /\ CodeOf(reader) = 127) =>
        ~TopBitSet(Ext64(reader))

\* The header the read returned is the header that was written.
SameHeader(r, h) ==
    /\ r.ok
    /\ r.flags = h.flags /\ r.opcode = h.opcode
    /\ r.mask = h.mask /\ r.len = h.len

(***************************************************************************)
(* C16: header write and header read are symmetric.  Every header that     *)
(* write returns Ok for keeps the rules of a header: its opcode fits in    *)
(* four bits, a control opcode comes with a length below 126 and with FIN  *)
(* set, and the length is written in its shortest form; so reading the     *)
(* bytes back succeeds and returns the same flags, opcode, key and length. *)
(***************************************************************************)
C16_WriteReadSymmetric ==
    /\ (hpc \in {"readHeader", "done"} /\ headerWritten.ok) =>
           /\ header.opcode <= 15
           /\ header.opcode >= 8 =>
                  (header.len < 126 /\ contains(header.flags, FIN))
           /\ CodeOf(reader) = LengthCode(header.len)
    /\ (hpc = "done" /\ headerWritten.ok) => SameHeader(headerRead, header)

\* The bytes of the length field for a payload of n bytes: the second header
\* byte alone, or with the 16-bit or the 64-bit length after it.
LengthFieldBytes(n) ==
    IF n \in 0..125 THEN 1 ELSE IF n \in 126..65535 THEN 3 ELSE 9

(***************************************************************************)
(* C17: for every frame and both values of masked, frame_size(masked) is   *)
(* 1 + length_bytes + (4 if masked) + payload size, with length_bytes 1    *)
(* up to 125, 3 for 126..65535 and 9 above.  It is the number of bytes a   *)
(* successful write_to(writer, masked) hands to the writer, and the header *)
(* the read decodes from these bytes has that size and that length.        *)
(***************************************************************************)
C17_FrameSize ==
    LET n == Len(dataframe.data)
    IN  /\ \A m \in BOOLEAN :
               frame_size(dataframe, m)
                   = 1 + LengthFieldBytes(n) + (IF m THEN 4 ELSE 0) + n
        /\ sent.ok =>
               /\ Len(Concat(writer)) = frame_size(dataframe, senderMask)
               /\ LET h == DataFrameHeader_read(Concat(writer))
                  IN  h.ok => /\ h.used + n = frame_size(dataframe, senderMask)
                              /\ h.len = n

\* A masked frame of 65536 bytes went to the writer with its 14 header bytes.
C17_Witness ==
    /\ sent.ok /\ senderMask
    /\ Len(dataframe.data) = 65536
    /\ Len(Concat(writer)) = 65536 + 14
    /\ frame_size(dataframe, TRUE) = 65536 + 14

\* The payload as it goes on the wire.
WirePayload ==
    IF senderMask THEN mask_data(genMask, dataframe.data) ELSE dataframe.data

(***************************************************************************)
(* C18: write_to hands the frame to the writer as exactly one write_all    *)
(* call that holds the header and then the payload.  When write_to fails   *)
(* before that call, for a control opcode with 126 bytes or more or for an *)
(* error of write_payload, the writer gets no byte at all.                 *)
(***************************************************************************)
C18_SingleWrite ==
    LET n == Len(dataframe.data)
        head == frame_size(dataframe, senderMask) - n
    IN  /\ fpc # "send" =>
               /\ sent.ok <=> ~(payloadFails \/ (dataframe.opcode >= 8 /\ n >= 126))
               /\ sent.ok => Len(writer) = 1 /\ Len(writer[1]) = head + n
               /\ ~sent.ok => writer = << >>
        /\ fpc = "read" =>
               /\ writer[1][1] = FrameFlags(dataframe) + dataframe.opcode
               /\ MaskBit(writer[1]) = senderMask
               /\ CodeOf(writer[1]) = LengthCode(n)
               /\ senderMask => SubSeq(writer[1], head - 3, head) = genMask
               /\ Drop(writer[1], head) = WirePayload

\* write_payload failed after the header was written: the writer got nothing.
C18_Witness ==
    /\ fpc = "done" /\ ~sent.ok /\ sent.kind = "Io"
    /\ payloadFails /\ senderMask
    /\ Len(dataframe.data) = 127
    /\ writer = << >>

(***************************************************************************)
(* C19: what the streaming masker emits depends only on the key and on the *)
(* bytes written so far, however they were split into write calls, empty   *)
(* writes and chunks that are no multiple of 4 included: it equals         *)
(* mask_data(key, bytes), byte i being XORed with key byte i mod 4, and    *)
(* the position after n bytes is n mod 4.                                  *)
(***************************************************************************)
C19_StreamingMasker ==
    /\ masker.endpoint = mask_data(masker.key, Take(payload, fed))
    /\ Len(masker.endpoint) = fed
    /\ \A i \in 1..fed :
           masker.endpoint[i]
               = ByteXor(payload[i], masker.key[((i - 1) % 4) + 1])
    /\ masker.pos = fed % 4

\* Six bytes went through in chunks of 1, 0, 3 and 2 bytes.
C19_Witness ==
    /\ writes = <<1, 0, 3, 2>>
    /\ fed = Len(payload)
    /\ masker.key = PeerKey
    /\ masker.pos = 2
    /\ masker.endpoint # payload

(***************************************************************************)
(* C20: masking is an involution: mask_data(k, mask_data(k, p)) = p for    *)
(* every key k and every payload p, of any length, and mask_data keeps the *)
(* length of the payload.                                                  *)
(***************************************************************************)
C20_Involution ==
    /\ masked # << >> => Len(masked[1]) = Len(payload)
    /\ unmasked # << >> => unmasked[1] = payload

\* A payload of five bytes was changed by the first mask_data and restored
\* by the second.
C20_Witness ==
    /\ unmasked # << >>
    /\ Len(payload) = 5
    /\ masked[1] # payload
    /\ unmasked[1] = payload

\* ---------------------------------------------------------------------
\* Messages (message.rs)
\* ---------------------------------------------------------------------

\* Option<u16>: Some(code); None is the empty sequence.
Some(code) == <<code>>

\* Type as u8
Text == 1
Binary == 2
Close == 8
Ping == 9
Pong == 10

\* Message::new
Message_new(code, status, data) ==
    [opcode |-> code, cd_status_code |-> status, payload |-> data]

\* Message::text, ::binary, ::ping, ::pong: data is the bytes of the
\* argument.
text(data) == Message_new(Text, None, data)
binary(data) == Message_new(Binary, None, data)
ping(data) == Message_new(Ping, None, data)
pong(data) == Message_new(Pong, None, data)

\* Message::close, ::close_because
close == Message_new(Close, None, << >>)
close_because(code, reason) == Message_new(Close, Some(code), reason)

\* Variant: size() is the length of the payload field alone.
Message_size_PayloadOnly(m) == Len(m.payload)

\* <Message as DataFrame>::size
Message_size(m) ==
    Len(m.payload) + (IF m.cd_status_code # None THEN 2 ELSE 0)

\* Variant: the status code is written low byte first.
Message_write_payload_LittleEndian(m) ==
    (IF m.cd_status_code # None
     THEN <<m.cd_status_code[1] % 256, m.cd_status_code[1] \div 256>>
     ELSE << >>) \o m.payload

\* <Message as DataFrame>::write_payload: the bytes it writes.
Message_write_payload(m) ==
    (IF m.cd_status_code # None THEN write_u16(m.cd_status_code[1])
     ELSE << >>) \o m.payload

\* Message::serialize: write_to with is_last() true, reserved() all false,
\* opcode() the type, size() and write_payload() as above.  key is what
\* gen_mask returns.
serialize(m, is_masked, key) ==
    LET masking_key == IF is_masked THEN key ELSE None
        hdr == [flags |-> FIN, opcode |-> m.opcode, mask |-> masking_key,
                len |-> Message_size(m)]
        h == DataFrameHeader_write(hdr)
        written == Message_write_payload(m)
        body == IF masking_key # None
                THEN DataMasker_write(DataMasker_new(masking_key, << >>),
                                      written).endpoint
                ELSE written
    IN  IF ~h.ok THEN WriteToErr(h.kind, h.msg)
        ELSE [ok |-> TRUE, kind |-> "", msg |-> "",
              calls |-> WriteToCalls(h.bytes, body)]

\* Variant: only ASCII is taken for text.
from_utf8_Ascii(v) == \A i \in 1..Len(v) : v[i] < 128

\* std::str::from_utf8(v).is_ok(): the first byte begins a character, and
\* every byte that is not a continuation byte begins a well-formed character
\* that ends where the next one begins or v ends.
from_utf8(v) ==
    LET \* the number of bytes of a character that begins with first; 0
        \* when no character begins with it
        Width(first) ==
            IF first < 128 THEN 1
            ELSE IF first \in 194..223 THEN 2
            ELSE IF first \in 224..239 THEN 3
            ELSE IF first \in 240..244 THEN 4
            ELSE 0
        \* the second byte of a character that begins with first
        Second(first) ==
            CASE first = 224 -> 160..191
              [] first = 237 -> 128..159
              [] first = 240 -> 144..191
              [] first = 244 -> 128..143
              [] OTHER -> 128..191
    IN
    \A i \in 1..Len(v) :
        IF v[i] \in 128..191 THEN i > 1
        ELSE LET w == Width(v[i])
             IN  /\ w # 0
                 /\ i + w - 1 <= Len(v)
                 /\ (w >= 2 => v[i + 1] \in Second(v[i]))
                 /\ (w >= 3 => v[i + 2] \in 128..191)
                 /\ (w = 4 => v[i + 3] \in 128..191)
                 /\ (i + w <= Len(v) => v[i + w] \notin 128..191)

NoMessage == Message_new(0, None, << >>)

\* What from_dataframes returns.
AssembleErr(kind, msg) ==
    [ok |-> FALSE, kind |-> kind, msg |-> msg, message |-> NoMessage]

AssembleOk(m) == [ok |-> TRUE, kind |-> "", msg |-> "", message |-> m]

\* Variant: every opcode is taken for Binary.
Opcode_new_Binary(op) == Some(Binary)

\* Opcode::new
Opcode_new(op) == IF op \in 0..15 THEN Some(op) ELSE None

\* Variant: the opcodes of the later frames are not looked at.
NotContinuation_Never(i, opcode) == FALSE

\* i > 0 && dataframe.opcode() != Opcode::Continuation as u8, the frames
\* counted from 1.
NotContinuation(i, opcode) == i > 1 /\ opcode # 0

\* Variant: the reserved bits are not looked at.
ReservedSet_Never(reserved) == FALSE

\* *dataframe.reserved() != [false; 3]
ReservedSet(reserved) == reserved # <<FALSE, FALSE, FALSE>>

RECURSIVE AppendFrames(_, _, _)
\* The loop of from_dataframes from frame i on, data being what the frames
\* before it gave.
AppendFrames(fs, i, data) ==
    IF i > Len(fs) THEN [ok |-> TRUE, msg |-> "", data |-> data]
    ELSE IF NotContinuation(i, fs[i].opcode)
    THEN [ok |-> FALSE, msg |-> "Unexpected non-continuation data frame",
          data |-> << >>]
    ELSE IF ReservedSet(fs[i].reserved)
    THEN [ok |-> FALSE, msg |-> "Unsupported reserved bits received",
          data |-> << >>]
    ELSE AppendFrames(fs, i + 1, data \o fs[i].data)

\* Variant: the payload of a Close message is kept whole, its first two
\* bytes not taken as the status code.
FromData_CloseWhole(opcode, data) ==
    IF opcode = Some(Text) /\ ~from_utf8(data)
    THEN AssembleErr("Utf8Error", "")
    ELSE IF opcode \in {Some(Text), Some(Binary), Some(Ping), Some(Pong),
                        Some(Close)}
    THEN AssembleOk(Message_new(opcode[1], None, data))
    ELSE AssembleErr("ProtocolError", "Unsupported opcode received")

\* The end of from_dataframes: the message of the first frame's opcode and
\* the appended data.
FromData(opcode, data) ==
    IF opcode = Some(Text) /\ ~from_utf8(data)
    THEN AssembleErr("Utf8Error", "")
    ELSE IF opcode = Some(Text)
    THEN AssembleOk(Message_new(Text, None, data))
    ELSE IF opcode = Some(Binary) THEN AssembleOk(binary(data))
    ELSE IF opcode = Some(Close)
    THEN IF data = << >> THEN AssembleOk(close)
         ELSE IF Len(data) < 2 THEN AssembleErr("Io", "UnexpectedEof")
         ELSE IF ~from_utf8(Drop(data, 2)) THEN AssembleErr("Utf8Error", "")
         ELSE AssembleOk(close_because(read_u16(data), Drop(data, 2)))
    ELSE IF opcode = Some(Ping) THEN AssembleOk(ping(data))
    ELSE IF opcode = Some(Pong) THEN AssembleOk(pong(data))
    ELSE AssembleErr("ProtocolError", "Unsupported opcode received")

\* Message::from_dataframes
from_dataframes(fs) ==
    IF fs = << >> THEN AssembleErr("ProtocolError", "No dataframes provided")
    ELSE LET appended == AppendFrames(fs, 1, << >>)
         IN  IF ~appended.ok THEN AssembleErr("ProtocolError", appended.msg)
             ELSE FromData(Opcode_new(fs[1].opcode), appended.data)

\* The messages the application builds.  Text and reasons are valid UTF-8
\* ("", "H", U+00E9, and PeerText repeated); the other payloads are any
\* bytes.  A control message of 126 bytes is one too long for a frame, and
\* the long Binary messages take the 16-bit and the 64-bit length form.
Messages ==
    {text(s) : s \in {<< >>, <<72>>, <<195, 169>>, Pay(125), Pay(126)}}
    \cup {binary(b) : b \in {<< >>, <<255>>, <<195>>, Pay(126), Pay(65535),
                             Pay(65536)}}
    \cup {ping(b) : b \in {<< >>, <<195, 40>>, Pay(125), Pay(126)}}
    \cup {pong(b) : b \in {<< >>, <<195, 40>>, Pay(125), Pay(126)}}
    \cup {close}
    \cup {close_because(code, reason) :
            code \in {0, 1000, 65535},
            reason \in {<< >>, <<72>>, <<195, 169>>, Pay(123), Pay(124)}}

\* Pieces of text: "H", "(", the two bytes of U+00E9 and the three bytes
\* of U+20AC, each byte alone.
Fragments == {<< >>, <<72>>, <<40>>, <<195>>, <<169>>}

\* Payloads of Close frames: none, half a status code, status code 1000,
\* and 1000 with a reason that is, or is not, valid UTF-8.
ClosePayloads ==
    {<< >>, <<3>>, <<3, 232>>, <<3, 232, 72>>, <<3, 232, 195>>,
     <<3, 232, 195, 169>>}

\* What a peer sends to a receiver that expects masked or unmasked frames:
\* well-formed frames of at most MaxWire in a row.  Final frames of every
\* opcode with and without reserved bits, Close frames, messages of two
\* fragments with a reserved bit on either, and messages of two and three
\* fragments with a Ping between.
PeerStreams(m) ==
    {<<PeerFrame(TRUE, rsv, op, m, b)>> :
        rsv \in {0, RSV1, RSV2, RSV3}, op \in 0..15, b \in {<< >>, <<72>>}}
    \cup {<<PeerFrame(TRUE, 0, Close, m, b)>> : b \in ClosePayloads}
    \cup {<<PeerFrame(FALSE, rsv[1], op, m, a), PeerFrame(TRUE, rsv[2], 0, m, b)>> :
            rsv \in {<<0, 0>>, <<RSV1, 0>>, <<0, RSV2>>}, op \in {Text, Binary},
            a \in Fragments, b \in Fragments}
    \cup {<<PeerFrame(FALSE, 0, op, m, <<195>>), PeerFrame(TRUE, 0, Ping, m, <<72>>),
            PeerFrame(TRUE, 0, 0, m, b)>> :
            op \in {Text, Binary}, b \in {<<169>>, <<40>>}}
    \cup {[i \in 1..3 |-> PeerFrame(i = 3, 0, IF i = 1 THEN op ELSE 0, m,
                                    <<(<<226, 130, 172>>)[i]>>)] :
            op \in {Text, Binary}}

\* A frame in a Vec handed to from_dataframes.
Frame(op, rsv, data) ==
    [finished |-> TRUE, reserved |-> rsv, opcode |-> op, data |-> data]

\* The Vecs handed to from_dataframes without a receiver: up to two frames
\* of the data opcodes, a reserved data opcode, the control opcodes and a
\* reserved control opcode, with and without a reserved bit; up to MaxWire
\* frames of Continuation, Text and Ping; and one or two frames with a
\* payload, the second a Continuation.
FrameSeqs ==
    LET SeqsUpTo(S, n) == UNION {[1..k -> S] : k \in 0..n}
    IN
    SeqsUpTo({Frame(op, rsv, << >>) :
                op \in {0, Text, Binary, 3, Close, Ping, Pong, 11},
                rsv \in {<<FALSE, FALSE, FALSE>>, <<FALSE, TRUE, FALSE>>}}, 2)
    \cup SeqsUpTo({Frame(op, rsv, << >>) :
                op \in {0, Text, Ping},
                rsv \in {<<FALSE, FALSE, FALSE>>, <<FALSE, FALSE, TRUE>>}},
                MaxWire)
    \cup {<<Frame(op, <<FALSE, FALSE, FALSE>>, a)>> :
            op \in {Text, Binary, Close, Ping, Pong},
            a \in Fragments \cup ClosePayloads}
    \cup {<<Frame(op, <<FALSE, FALSE, FALSE>>, a),
            Frame(0, <<FALSE, FALSE, FALSE>>, b)>> :
            op \in {Text, Binary, Close, Ping, Pong},
            a \in Fragments \cup {<<3>>, <<3, 232>>},
            b \in Fragments \cup {<<232>>}}

NotAssembled == AssembleErr("", "")

\* A message to serialize and a receiver with the matching expectation; or
\* a peer's stream and a receiver with the matching expectation; or a Vec
\* of frames.
MessageInit ==
    /\ \E m \in BOOLEAN :
         /\ ReceiverInit(new(m))
         /\ messageMask = m
         /\ \/ /\ message \in Messages
               /\ stream = << >>
               /\ dataframes = << >>
               /\ mpc = "serialize"
               /\ pc = "wait"
            \/ /\ message = NoMessage
               /\ stream \in PeerStreams(m)
               /\ dataframes = << >>
               /\ mpc = "receive"
               /\ pc = "idle"
            \/ /\ message = NoMessage
               /\ stream = << >>
               /\ dataframes \in FrameSeqs
               /\ m = FALSE
               /\ mpc = "assemble"
               /\ pc = "wait"
    /\ serialized = NotSent
    /\ assembled = NotAssembled
    /\ HeaderUnused /\ MaskerUnused /\ FrameUnused /\ HandshakeUnused

\* Sender::send_message: message.serialize(writer, mask); what the writer
\* got is what the receiver's reader holds.
Serialize ==
    /\ mpc = "serialize"
    /\ \E key \in GenMasks :
         LET r == serialize(message, messageMask, key)
         IN  /\ serialized' = r
             /\ stream' = IF r.ok THEN <<Concat(r.calls)>> ELSE << >>
             /\ mpc' = IF r.ok THEN "receive" ELSE "done"
             /\ pc' = IF r.ok THEN "idle" ELSE pc
    /\ UNCHANGED <<message, messageMask, dataframes, assembled>>
    /\ UNCHANGED <<buffer, config, current_message_length, result, lastRead,
                   nread, wire, bufferSeq, delivered, failed, reads>>
    /\ UNCHANGED <<headerVars, maskerVars, frameVars, handshakeVars>>

\* Message::from_dataframes on what recv_message_dataframes returned.
AssembleReceived ==
    /\ mpc = "receive"
    /\ pc = "idle"
    /\ result.kind = "Ok"
    /\ dataframes' = result.frames
    /\ assembled' = from_dataframes(result.frames)
    /\ UNCHANGED <<message, messageMask, serialized, stream, mpc>>
    /\ UNCHANGED <<vars, headerVars, maskerVars, frameVars, handshakeVars>>

\* Message::from_dataframes on a Vec of frames.
Assemble ==
    /\ mpc = "assemble"
    /\ assembled' = from_dataframes(dataframes)
    /\ mpc' = "done"
    /\ UNCHANGED <<message, messageMask, serialized, stream, dataframes>>
    /\ UNCHANGED <<vars, headerVars, maskerVars, frameVars, handshakeVars>>

MessageNext ==
    Serialize \/ Call \/ ReadFirst \/ ReadNext \/ AssembleReceived \/ Assemble

MessageSpec == MessageInit /\ [][MessageNext]_<<vars, codecVars>>

\* ---------------------------------------------------------------------
\* Properties of messages
\* ---------------------------------------------------------------------

\* serialize has returned.
Serialized == mpc \in {"receive", "done"} /\ message # NoMessage

\* The frame payload the message stands for: the status code, if any, in
\* two bytes, the high one first, and the payload after it.
ExpectedPayload(m) ==
    (IF m.cd_status_code # None
     THEN <<m.cd_status_code[1] \div 256, m.cd_status_code[1] % 256>>
     ELSE << >>) \o m.payload

\* The bytes before the payload of a frame of n payload bytes.
HeadLength(n, is_masked) ==
    2 + (IF n > 65535 THEN 8 ELSE IF n > 125 THEN 2 ELSE 0)
      + (IF is_masked THEN 4 ELSE 0)

\* The writer got, in one write, exactly one frame: FIN set, the reserved
\* bits clear, the message's opcode, the declared length that of the
\* expected payload, and that payload after the header.
OneFrameWritten ==
    /\ serialized.ok
    /\ Len(serialized.calls) = 1
    /\ Len(stream) = 1
    /\ LET s == stream[1]
           r == read_dataframe(s, messageMask)
           expected == ExpectedPayload(message)
       IN  /\ s[1] = 128 + message.opcode
           /\ MaskBit(s) = messageMask
           /\ r.ok
           /\ r.declared = Len(expected)
           /\ r.frame.data = expected
           /\ Len(s) = HeadLength(Len(expected), messageMask) + Len(expected)

\* C21: serializing a Message either fails without a byte written, which
\* happens exactly for a Close, Ping or Pong whose frame payload is 126
\* bytes or more, or emits exactly one frame with FIN set, the reserved bits
\* clear and the message's opcode, whatever the payload size; the payload of
\* a Close with a status code is the code in two bytes, big-endian, and the
\* reason after it, with declared length reason length + 2, and that of a
\* Close without a code is empty.
C21_SingleFrame ==
    Serialized =>
        IF message.opcode \in {Close, Ping, Pong}
           /\ Len(ExpectedPayload(message)) >= 126
        THEN ~serialized.ok /\ stream = << >>
        ELSE OneFrameWritten

\* C21 as stated: serializing a Message always emits exactly one frame.
C21_AlwaysOneFrame == Serialized => OneFrameWritten

C21_Witness ==
    /\ Serialized
    /\ serialized.ok
    /\ messageMask
    /\ message = close_because(1000, Pay(123))
    /\ Len(stream[1]) = 6 + 125

\* from_dataframes has returned.
Assembled == assembled # NotAssembled

\* The receiver reads a peer's stream.
Received == mpc = "receive" /\ message = NoMessage

\* The payloads of the frames, one after the other.
WholeData(fs) == Concat([i \in 1..Len(fs) |-> fs[i].data])

\* No frame has a reserved bit set and every frame after the first is a
\* Continuation.
ChecksPass(fs) ==
    /\ fs # << >>
    /\ \A i \in 1..Len(fs) :
         /\ fs[i].reserved = <<FALSE, FALSE, FALSE>>
         /\ (i > 1 => fs[i].opcode = 0)

\* The opcode and the reserved bits in the first byte of a frame on the wire.
WireOpcode(s) == s[1] % 16

WireReserved(s) ==
    <<(s[1] \div 64) % 2 = 1, (s[1] \div 32) % 2 = 1, (s[1] \div 16) % 2 = 1>>

\* d is text made of ASCII, U+00E9 (195 169) and U+20AC (226 130 172): every
\* byte is ASCII or stands at its place in one of the two.  Of the byte
\* strings the specification draws, these are the valid UTF-8 ones.
IsText(d) ==
    LET At(i) == IF i \in 1..Len(d) THEN d[i] ELSE -1
    IN  \A i \in 1..Len(d) :
            \/ d[i] < 128
            \/ d[i] = 195 /\ At(i + 1) = 169
            \/ d[i] = 169 /\ At(i - 1) = 195
            \/ d[i] = 226 /\ At(i + 1) = 130 /\ At(i + 2) = 172
            \/ d[i] = 130 /\ At(i - 1) = 226 /\ At(i + 1) = 172
            \/ d[i] = 172 /\ At(i - 2) = 226 /\ At(i - 1) = 130

\* C22: for every Message built by text, binary, ping, pong, close or
\* close_because whose serialization succeeds, and for both mask settings,
\* the receiver with the matching expectation returns the serialized bytes
\* in its first call, and from_dataframes of what it returns is the original
\* message: the same opcode, status code and payload.
C22_MessageRoundTrip ==
    (message # NoMessage /\ mpc = "receive") =>
        /\ (result.kind = "Ok" =>
                from_dataframes(result.frames) = AssembleOk(message))
        /\ (result.kind = "Err" => delivered = <<<<1>>>>)
        /\ (Assembled => assembled = AssembleOk(message))

C22_Witness ==
    /\ Assembled
    /\ messageMask
    /\ message = close_because(65535, <<195, 169>>)
    /\ assembled.message = message

\* The first frame after the first whose opcode is not Continuation.
FirstNonContinuation(fs) ==
    CHOOSE i \in 2..Len(fs) :
        fs[i].opcode # 0 /\ \A j \in 2..(i - 1) : fs[j].opcode = 0

\* The first frame with a reserved bit set.
FirstReserved(fs) ==
    CHOOSE i \in 1..Len(fs) :
        /\ fs[i].reserved # <<FALSE, FALSE, FALSE>>
        /\ \A j \in 1..(i - 1) : fs[j].reserved = <<FALSE, FALSE, FALSE>>

\* C23: from_dataframes fails with ProtocolError("No dataframes provided")
\* on an empty sequence; whenever some frame after the first has an opcode
\* other than Continuation it fails with a ProtocolError, which is
\* "Unexpected non-continuation data frame" unless a frame before the first
\* such frame has a reserved bit set, and then is "Unsupported reserved bits
\* received"; every frame sequence that recv_message_dataframes returns is
\* non-empty with every frame after the first a Continuation.
C23_NonContinuation ==
    /\ (Assembled /\ dataframes = << >>) =>
           assembled = AssembleErr("ProtocolError", "No dataframes provided")
    /\ (Assembled /\ \E i \in 2..Len(dataframes) : dataframes[i].opcode # 0) =>
           LET i == FirstNonContinuation(dataframes)
           IN  assembled = AssembleErr("ProtocolError",
                   IF \E j \in 1..(i - 1) :
                          dataframes[j].reserved # <<FALSE, FALSE, FALSE>>
                   THEN "Unsupported reserved bits received"
                   ELSE "Unexpected non-continuation data frame")
    /\ result.kind = "Ok" =>
           /\ result.frames # << >>
           /\ \A i \in 2..Len(result.frames) : result.frames[i].opcode = 0

\* C23 as stated: the failure is always ProtocolError("Unexpected
\* non-continuation data frame").
C23_AlwaysNonContinuation ==
    (Assembled /\ \E i \in 2..Len(dataframes) : dataframes[i].opcode # 0) =>
        assembled = AssembleErr("ProtocolError",
                                "Unexpected non-continuation data frame")

C23_Witness ==
    /\ Assembled
    /\ Len(dataframes) = 3
    /\ dataframes[2].opcode = 0
    /\ dataframes[3].opcode = Text
    /\ assembled.msg = "Unexpected non-continuation data frame"

\* C24: from_dataframes rejects with a ProtocolError every sequence of more
\* than one frame whose first frame has a control opcode (Close, Ping,
\* Pong).
C24_ControlSingleFrame ==
    (/\ Assembled
     /\ Len(dataframes) > 1
     /\ dataframes[1].opcode \in {Close, Ping, Pong}) =>
        ~assembled.ok /\ assembled.kind = "ProtocolError"

\* Reading keeps the reserved bits, and the receiver returns the frames
\* that carry them.
ReservedKept ==
    /\ (mpc = "receive" /\ lastRead.ok) =>
           lastRead.frame.reserved = WireReserved(stream[nread])
    /\ (mpc = "receive" /\ result.kind = "Ok") =>
           \A k \in 1..Len(result.frames) :
               result.frames[k].reserved
                   = WireReserved(stream[result.seqs[k]])
    /\ (Received /\ result.kind = "Err") =>
           delivered # << >> \/ WireOpcode(stream[1]) = 0

\* C25: a frame with any of RSV1/2/3 set is read with its reserved flags
\* intact and is returned by recv_message_dataframes; from_dataframes fails
\* with a ProtocolError for every sequence in which any frame has a reserved
\* bit set, which is "Unsupported reserved bits received" unless a frame
\* after the first, up to the first one with a reserved bit, has an opcode
\* other than Continuation, and then is "Unexpected non-continuation data
\* frame".
C25_ReservedBits ==
    /\ ReservedKept
    /\ (Assembled /\ \E i \in 1..Len(dataframes) :
                         dataframes[i].reserved # <<FALSE, FALSE, FALSE>>) =>
           LET i == FirstReserved(dataframes)
           IN  assembled = AssembleErr("ProtocolError",
                   IF \E j \in 2..i : dataframes[j].opcode # 0
                   THEN "Unexpected non-continuation data frame"
                   ELSE "Unsupported reserved bits received")

\* C25 as stated: the failure is always ProtocolError("Unsupported reserved
\* bits received").
C25_AlwaysReservedBits ==
    (Assembled /\ \E i \in 1..Len(dataframes) :
                      dataframes[i].reserved # <<FALSE, FALSE, FALSE>>) =>
        assembled = AssembleErr("ProtocolError",
                                "Unsupported reserved bits received")

C25_Witness ==
    /\ Assembled
    /\ mpc = "receive"
    /\ Len(dataframes) = 2
    /\ dataframes[1].reserved = <<FALSE, FALSE, FALSE>>
    /\ dataframes[2].reserved = <<FALSE, TRUE, FALSE>>
    /\ assembled.msg = "Unsupported reserved bits received"

\* C26: from_dataframes fails whenever the first frame's opcode is not one
\* of Text, Binary, Close, Ping, Pong, and with ProtocolError("Unsupported
\* opcode received") when no earlier check failed; the receiver returns a
\* first frame with a reserved opcode (3-7, 11-15), and from_dataframes of
\* what it returned fails, so no Message comes of it.
C26_UnsupportedOpcode ==
    /\ (/\ Assembled
        /\ dataframes # << >>
        /\ dataframes[1].opcode \notin {Text, Binary, Close, Ping, Pong}) =>
           /\ ~assembled.ok
           /\ ChecksPass(dataframes) =>
                  assembled = AssembleErr("ProtocolError",
                                          "Unsupported opcode received")
    /\ (/\ Received
        /\ Len(stream) = 1
        /\ WireOpcode(stream[1]) \in (3..7) \cup (11..15)) =>
           /\ (result.kind = "Err" => delivered = <<<<1>>>>)
           /\ (result.kind = "Ok" => ~from_dataframes(result.frames).ok)

C26_Witness ==
    /\ Assembled
    /\ mpc = "receive"
    /\ dataframes = result.frames
    /\ dataframes[1].opcode = 11
    /\ dataframes[1].reserved = <<FALSE, FALSE, FALSE>>
    /\ assembled.msg = "Unsupported opcode received"

\* C27: reading frames and recv_message_dataframes never fail because of
\* payload content (in a stream of fragments with any payloads only the end
\* of the stream makes them fail); from_dataframes accepts a Text message
\* exactly when the concatenation of its fragments is valid UTF-8, whatever
\* the fragments are one by one, fails with Utf8Error otherwise, and never
\* validates a Binary payload.
C27_Utf8OnWhole ==
    /\ (Received /\ ~lastRead.ok /\ lastRead # NoRead) =>
           nread = Len(stream)
    /\ (Received /\ Len(stream) >= 2 /\ result.kind = "Err") =>
           nread = Len(stream) /\ ~lastRead.ok
    /\ (Assembled /\ ChecksPass(dataframes)
                  /\ dataframes[1].opcode = Text) =>
           assembled = IF IsText(WholeData(dataframes))
                       THEN AssembleOk(Message_new(Text, None,
                                                   WholeData(dataframes)))
                       ELSE AssembleErr("Utf8Error", "")
    /\ (Assembled /\ ChecksPass(dataframes)
                  /\ dataframes[1].opcode = Binary) =>
           assembled = AssembleOk(Message_new(Binary, None,
                                              WholeData(dataframes)))

C27_Witness ==
    /\ Assembled
    /\ mpc = "receive"
    /\ Len(dataframes) = 3
    /\ dataframes[1].opcode = Text
    /\ dataframes[1].data = <<226>>
    /\ dataframes[2].data = <<130>>
    /\ dataframes[3].data = <<172>>
    /\ assembled.ok
    /\ assembled.message.payload = <<226, 130, 172>>

\* C28: from_dataframes on a single Close frame: an empty payload gives a
\* Close message with no status code and an empty payload; a payload of two
\* bytes or more gives the status code of its first two bytes, big-endian,
\* and the remaining bytes as reason, and fails with Utf8Error when the
\* remaining bytes are not valid UTF-8.
C28_CloseFrame ==
    (/\ Assembled
     /\ Len(dataframes) = 1
     /\ dataframes[1].opcode = Close
     /\ dataframes[1].reserved = <<FALSE, FALSE, FALSE>>) =>
        LET d == dataframes[1].data
        IN  /\ d = << >> =>
                   assembled = AssembleOk(Message_new(Close, None, << >>))
            /\ Len(d) >= 2 =>
                   assembled =
                       IF IsText(Drop(d, 2))
                       THEN AssembleOk(Message_new(Close,
                                <<d[1] * 256 + d[2]>>, Drop(d, 2)))
                       ELSE AssembleErr("Utf8Error", "")

C28_Witness ==
    /\ Assembled
    /\ Len(dataframes) = 1
    /\ dataframes[1].opcode = Close
    /\ dataframes[1].data = <<3, 232, 195, 169>>
    /\ assembled.ok
    /\ assembled.message.cd_status_code = <<1000>>
    /\ assembled.message.payload = <<195, 169>>

\* The step is the first read of a call, and the call fails in it: the read
\* itself fails (I/O error, header error, frame over the limit, mask
\* expectation not met), or the frame read in the idle state is a
\* Continuation.
FirstReadFails ==
    /\ pc \in {"first", "loop"}
    /\ lastRead = NoRead
    /\ result'.kind = "Err"
    /\ \/ ~lastRead'.ok
       \/ pc = "first" /\ lastRead'.frame.opcode = 0

\* C29: if recv_message_dataframes fails while reading the first frame of
\* the call, the receiver's buffer afterwards equals its value before the
\* call.
C29_BufferKept ==
    [][FirstReadFails => buffer' = buffer /\ bufferSeq' = bufferSeq]_<<vars, codecVars>>

\* A fragment is buffered, a Ping was returned by the call that read both,
\* and a later call failed in its first read; the fragment is still there.
C29_Witness ==
    /\ pc = "idle"
    /\ Len(buffer) = 1
    /\ delivered = <<<<2>>>>
    /\ nread = 2
    /\ result.kind = "Err"
    /\ lastRead # NoRead
    /\ ~lastRead.ok

\* ---------------------------------------------------------------------
\* The opening handshake (sec_header.rs).  Text is a sequence of ASCII
\* codes.
\* ---------------------------------------------------------------------

\* The Base64 alphabets: A-Z, a-z, 0-9 and "+", "/" or "-", "_".
Alphabet(c62, c63) ==
    [i \in 1..64 |->
        IF i <= 26 THEN 64 + i
        ELSE IF i <= 52 THEN 70 + i
        ELSE IF i <= 62 THEN i - 5
        ELSE IF i = 63 THEN c62 ELSE c63]

\* general_purpose::URL_SAFE_NO_PAD: the URL-safe alphabet, no padding
\* written and none allowed.
URL_SAFE_NO_PAD ==
    [alphabet |-> Alphabet(45, 95), encode_padding |-> FALSE,
     decode_padding_mode |-> "RequireNone"]

\* Engine::encode
Base64_encode(engine, bytes) ==
    LET n == Len(bytes)
        At(i) == IF i <= n THEN bytes[i] ELSE 0
        \* the j-th sextet
        Sextet(j) ==
            LET k == ((j - 1) \div 4) * 3
                group == At(k + 1) * 65536 + At(k + 2) * 256 + At(k + 3)
            IN  CASE (j - 1) % 4 = 0 -> group \div 262144
                  [] (j - 1) % 4 = 1 -> (group \div 4096) % 64
                  [] (j - 1) % 4 = 2 -> (group \div 64) % 64
                  [] OTHER -> group % 64
        symbols == (n * 8 + 5) \div 6
        padding == IF engine.encode_padding THEN (3 - (n % 3)) % 3 ELSE 0
    IN  [j \in 1..symbols |-> engine.alphabet[Sextet(j) + 1]]
        \o [j \in 1..padding |-> 61]

\* Engine::decode: ok tells Ok(bytes) from Err(DecodeError).
Base64_decode(engine, s) ==
    LET stripped == {i \in 0..Len(s) : \A j \in (i + 1)..Len(s) : s[j] = 61}
        symbols == CHOOSE i \in stripped : \A k \in stripped : i <= k
        padding == Len(s) - symbols
        InAlphabet(c) == \E i \in 1..64 : engine.alphabet[i] = c
        Value(j) == (CHOOSE i \in 1..64 : engine.alphabet[i] = s[j]) - 1
        Byte(k) ==
            LET j == ((k - 1) * 8) \div 6 + 1
                r == ((k - 1) * 8) % 6
            IN  CASE r = 0 -> Value(j) * 4 + Value(j + 1) \div 16
                  [] r = 2 -> (Value(j) % 16) * 16 + Value(j + 1) \div 4
                  [] OTHER -> (Value(j) % 4) * 64 + Value(j + 1)
        badPadding ==
            CASE engine.decode_padding_mode = "RequireNone" -> padding > 0
              [] engine.decode_padding_mode = "RequireCanonical" ->
                     padding # (4 - (symbols % 4)) % 4
              [] OTHER -> padding > 2
        trailingBits ==
            CASE symbols % 4 = 2 -> Value(symbols) % 16 # 0
              [] symbols % 4 = 3 -> Value(symbols) % 4 # 0
              [] OTHER -> FALSE
    IN  IF \/ \E j \in 1..symbols : ~InAlphabet(s[j])
           \/ symbols % 4 = 1
           \/ badPadding
           \/ trailingBits
        THEN [ok |-> FALSE, bytes |-> << >>]
        ELSE [ok |-> TRUE,
              bytes |-> [k \in 1..((symbols * 6) \div 8) |-> Byte(k)]]

\* Sha1::digest.  A 32-bit word is the pair of its high and low 16 bits.
Sha1_digest(data) ==
    LET RECURSIVE AndBits(_, _, _)
        AndBits(a, b, n) ==
            IF n = 0 THEN 0
            ELSE ((a % 2) * (b % 2)) + 2 * AndBits(a \div 2, b \div 2, n - 1)
        Xor(a, b) == <<XorBits(a[1], b[1], 16), XorBits(a[2], b[2], 16)>>
        And(a, b) == <<AndBits(a[1], b[1], 16), AndBits(a[2], b[2], 16)>>
        Not(a) == <<65535 - a[1], 65535 - a[2]>>
        Add(a, b) ==
            <<(a[1] + b[1] + ((a[2] + b[2]) \div 65536)) % 65536,
              (a[2] + b[2]) % 65536>>
        \* rotate left by n < 16
        Rotl(a, n) ==
            <<((a[1] * (2^n)) % 65536) + (a[2] \div (2^(16 - n))),
              ((a[2] * (2^n)) % 65536) + (a[1] \div (2^(16 - n)))>>
        Rotl30(a) == Rotl(<<a[2], a[1]>>, 14)
        padded ==
            data \o <<128>>
            \o [i \in 1..((119 - (Len(data) % 64)) % 64) |-> 0]
            \o write_u64(Len(data) * 8)
        Word(block, t) ==
            <<block[4 * t - 3] * 256 + block[4 * t - 2],
              block[4 * t - 1] * 256 + block[4 * t]>>
        \* the message schedule up to n words; each word is computed
        \* before the next
        RECURSIVE Extend(_, _)
        Extend(w, n) ==
            IF Len(w) >= n THEN w
            ELSE Extend(w \o <<Rotl(Xor(Xor(w[Len(w) - 2], w[Len(w) - 7]),
                                      Xor(w[Len(w) - 13], w[Len(w) - 15])),
                                  1)>>, n)
        Schedule(w) == Extend(Extend(Extend(Extend(w, 32), 48), 64), 80)
        F(t, b, c, d) ==
            IF t < 20 THEN Xor(And(b, c), And(Not(b), d))
            ELSE IF t \in 40..59
            THEN Xor(Xor(And(b, c), And(b, d)), And(c, d))
            ELSE Xor(Xor(b, c), d)
        K(t) ==
            IF t < 20 THEN <<23170, 31129>>
            ELSE IF t < 40 THEN <<28377, 60321>>
            ELSE IF t < 60 THEN <<36635, 48348>>
            ELSE <<51810, 49622>>
        Round(s, w, t) ==
            <<Add(Add(Add(Add(Rotl(s[1], 5), F(t, s[2], s[3], s[4])), s[5]),
                      K(t)), w[t + 1]),
              s[1], Rotl30(s[2]), s[3], s[4]>>
        \* rounds t to n - 1; each state is computed before the next
        RECURSIVE Rounds(_, _, _, _)
        Rounds(s, w, t, n) ==
            IF t = n \/ Len(s) # 5 THEN s
            ELSE Rounds(Round(s, w, t), w, t + 1, n)
        Block(h, block) ==
            LET w == Schedule([t \in 1..16 |-> Word(block, t)])
                s == Rounds(Rounds(Rounds(Rounds(h, w, 0, 20), w, 20, 40),
                                   w, 40, 60), w, 60, 80)
            IN  [i \in 1..5 |-> Add(h[i], s[i])]
        RECURSIVE Blocks(_, _)
        Blocks(h, rest) ==
            IF rest = << >> THEN h
            ELSE Blocks(Block(h, Take(rest, 64)), Drop(rest, 64))
        final == Blocks(<<<<26437, 8961>>, <<61389, 43913>>, <<39098, 56574>>,
                          <<4146, 21622>>, <<50130, 57840>>>>, padded)
    IN  [i \in 1..20 |->
            LET half == final[(i - 1) \div 4 + 1][((i - 1) % 4) \div 2 + 1]
            IN  IF i % 2 = 1 THEN half \div 256 ELSE half % 256]

\* "258EAFA5-E914-47DA-95CA-C5AB0DC85B11"
MAGIC_GUID ==
    <<50, 53, 56, 69, 65, 70, 65, 53, 45, 69, 57, 49, 52, 45, 52, 55, 68, 65,
      45, 57, 53, 67, 65, 45, 67, 53, 65, 66, 48, 68, 67, 56, 53, 66, 49, 49>>

\* What WebSocketKey::from_str returns.
KeyErr(msg) ==
    [ok |-> FALSE, kind |-> "ProtocolError", msg |-> msg, bytes |-> << >>]

KeyOk(bytes) == [ok |-> TRUE, kind |-> "", msg |-> "", bytes |-> bytes]

\* WebSocketKey::from_str
WebSocketKey_from_str(s) ==
    LET decoded == Base64_decode(URL_SAFE_NO_PAD, s)
    IN  IF decoded.ok
        THEN IF Len(decoded.bytes) # 16
             THEN KeyErr("Sec-WebSocket-Key must be 16 bytes")
             ELSE KeyOk(decoded.bytes)
        ELSE KeyErr("Invalid Sec-WebSocket-Accept")

\* WebSocketKey::serialize
WebSocketKey_serialize(k) == Base64_encode(URL_SAFE_NO_PAD, k)

\* WebSocketAccept::new
WebSocketAccept_new(k) == Sha1_digest(WebSocketKey_serialize(k) \o MAGIC_GUID)

\* WebSocketAccept::serialize
WebSocketAccept_serialize(a) == Base64_encode(URL_SAFE_NO_PAD, a)

\* "the sample nonce", the key of RFC 6455 section 1.3.
SampleNonce ==
    <<116, 104, 101, 32, 115, 97, 109, 112, 108, 101, 32, 110, 111, 110, 99,
      101>>

\* The keys peers send: the sample nonce, and keys whose Base64 has letters
\* only, digits, and the two symbols in which the alphabets differ.
KeyBytes ==
    {SampleNonce}
    \cup {[i \in 1..16 |-> b] : b \in {0, 1, 85, 170, 251, 255}}
    \cup {[i \in 1..16 |-> (i * m) % 256] : m \in {1, 7, 17, 63, 101, 251}}

\* The texts of the Sec-WebSocket-Key header: keys of 16 bytes, of 15 and of
\* 17, in every way a peer writes Base64 (the standard or the URL-safe
\* alphabet, padded or not), and texts that are no Base64.
KeyTexts ==
    LET PeerEngines ==
            {[alphabet |-> a, encode_padding |-> p,
              decode_padding_mode |-> "Indifferent"] :
                a \in {Alphabet(43, 47), Alphabet(45, 95)}, p \in BOOLEAN}
    IN
    {Base64_encode(e, k) : e \in PeerEngines, k \in KeyBytes}
    \cup {Base64_encode(e, Take(k \o k, n)) :
            e \in PeerEngines, k \in {SampleNonce}, n \in {0, 15, 17}}
    \cup {<<32>>, <<65>>, <<65, 61, 65, 65>>}

\* A peer's header text to parse, or a key to generate.
HandshakeInit ==
    /\ \/ keyText \in KeyTexts /\ kpc = "parse"
       \/ keyText = << >> /\ kpc = "new"
    /\ webSocketKey = KeyErr("")
    /\ accept = << >>
    /\ acceptText = << >>
    /\ ReceiverUnused /\ HeaderUnused /\ MaskerUnused /\ FrameUnused
    /\ MessageUnused

\* WebSocketKey::new and serialize: the client's header.
NewKey ==
    /\ kpc = "new"
    /\ \E k \in {[i \in 1..16 |-> (i * i + m) % 256] :
                    m \in {0, 7, 100, 190, 251}} :
         /\ webSocketKey' = KeyOk(k)
         /\ keyText' = WebSocketKey_serialize(k)
    /\ kpc' = "derive"
    /\ UNCHANGED <<accept, acceptText>>
    /\ UNCHANGED <<vars, headerVars, maskerVars, frameVars, messageVars>>

\* WebSocketKey::from_str on the header text.
FromStr ==
    /\ kpc = "parse"
    /\ webSocketKey' = WebSocketKey_from_str(keyText)
    /\ kpc' = IF webSocketKey'.ok THEN "derive" ELSE "done"
    /\ UNCHANGED <<keyText, accept, acceptText>>
    /\ UNCHANGED <<vars, headerVars, maskerVars, frameVars, messageVars>>

\* WebSocketAccept::new(&key)
NewAccept ==
    /\ kpc = "derive"
    /\ accept' = WebSocketAccept_new(webSocketKey.bytes)
    /\ kpc' = "serialize"
    /\ UNCHANGED <<keyText, webSocketKey, acceptText>>
    /\ UNCHANGED <<vars, headerVars, maskerVars, frameVars, messageVars>>

\* WebSocketAccept::serialize
SerializeAccept ==
    /\ kpc = "serialize"
    /\ acceptText' = WebSocketAccept_serialize(accept)
    /\ kpc' = "done"
    /\ UNCHANGED <<keyText, webSocketKey, accept>>
    /\ UNCHANGED <<vars, headerVars, maskerVars, frameVars, messageVars>>

HandshakeNext == NewKey \/ FromStr \/ NewAccept \/ SerializeAccept

HandshakeSpec == HandshakeInit /\ [][HandshakeNext]_<<vars, codecVars>>

\* "dGhlIHNhbXBsZSBub25jZQ=="
SampleKeyText ==
    <<100, 71, 104, 108, 73, 72, 78, 104, 98, 88, 66, 115, 90, 83, 66, 117,
      98, 50, 53, 106, 90, 81, 61, 61>>

\* "s3pPLMBiTxaQ9kYGzzhZRbK+xOo="
SampleAcceptText ==
    <<115, 51, 112, 80, 76, 77, 66, 105, 84, 120, 97, 81, 57, 107, 89, 71,
      122, 122, 104, 90, 82, 98, 75, 43, 120, 79, 111, 61>>

\* C30: WebSocketKey::from_str accepts the padded standard-Base64 key
\* "dGhlIHNhbXBsZSBub25jZQ==" as the 16 bytes it encodes, and the
\* WebSocketAccept derived from that key serializes to
\* "s3pPLMBiTxaQ9kYGzzhZRbK+xOo=".
C30_SampleHandshake ==
    (keyText = SampleKeyText /\ kpc \in {"derive", "serialize", "done"}) =>
        /\ webSocketKey = KeyOk(SampleNonce)
        /\ kpc = "done" => acceptText = SampleAcceptText

(***************************************************************************)
(* C31: between calls of recv_message_dataframes, also after a call that   *)
(* failed, the buffer is empty or holds one first frame with an opcode in  *)
(* 1..7 followed only by Continuation frames; no buffered frame has FIN    *)
(* set and no buffered frame is a control frame.                           *)
(***************************************************************************)
C31_BufferInvariant ==
    pc = "idle" =>
        /\ \A i \in DOMAIN buffer :
             ~buffer[i].finished /\ buffer[i].opcode \notin 8..15
        /\ buffer # << >> =>
             /\ buffer[1].opcode \in 1..7
             /\ \A i \in 2..Len(buffer) : buffer[i].opcode = 0

\* A failed call left a first fragment and its continuations in the buffer.
C31_Witness ==
    /\ pc = "idle" /\ result.kind = "Err"
    /\ Len(buffer) >= 2
    /\ buffer[1].opcode \in 1..7
    /\ buffer[2].opcode = 0

(***************************************************************************)
(* Termination of recv_message_dataframes.                                 *)
(***************************************************************************)
\* A receiver and the stream its reader holds: up to
\* MAX_DATAFRAMES_IN_ONE_MESSAGE + 1 frames, each a non-final Text frame, a
\* non-final or a final Continuation frame or a Ping, all with empty
\* payloads; one frame more than a call can read, so that no call meets the
\* end of a stream of non-final Continuation frames before the count stops
\* it.
LiveInit ==
    LET LiveFrames(m) ==
            {PeerFrame(FALSE, 0, Text, m, << >>),
             PeerFrame(FALSE, 0, 0, m, << >>),
             PeerFrame(TRUE, 0, 0, m, << >>),
             PeerFrame(TRUE, 0, Ping, m, << >>)}
        LiveStreams(m) ==
            UNION {[1..k -> LiveFrames(m)] :
                      k \in 0..(MAX_DATAFRAMES_IN_ONE_MESSAGE + 1)}
    IN  /\ \E r \in Receivers :
             /\ ReceiverInit(r)
             /\ messageMask = r.mask
             /\ stream \in LiveStreams(r.mask)
        /\ pc = "idle"
        /\ message = NoMessage
        /\ dataframes = << >>
        /\ mpc = "receive"
        /\ serialized = NotSent
        /\ assembled = NotAssembled
        /\ HeaderUnused /\ MaskerUnused /\ FrameUnused /\ HandshakeUnused

\* The calls of recv_message_dataframes on such a reader.  Every
\* recv_dataframe a call makes returns: the reader hands out a frame or the
\* end of the stream.
LiveSpec ==
    /\ LiveInit /\ [][Next]_<<vars, codecVars>>
    /\ WF_<<vars, codecVars>>(ReadFirst)
    /\ WF_<<vars, codecVars>>(ReadNext)

InCall == pc \in {"first", "loop"}

(***************************************************************************)
(* C32: every call of recv_message_dataframes returns, whatever the reader *)
(* holds; where no earlier call has failed, a call that has not returned   *)
(* has read fewer than MAX_DATAFRAMES_IN_ONE_MESSAGE frames, and so        *)
(* returns after at most MAX_DATAFRAMES_IN_ONE_MESSAGE reads.              *)
(***************************************************************************)
C32_Terminates ==
    /\ []((InCall /\ ~failed) => reads < MAX_DATAFRAMES_IN_ONE_MESSAGE)
    /\ [][(InCall /\ ~failed /\ pc' = "idle")
              => reads' <= MAX_DATAFRAMES_IN_ONE_MESSAGE]_<<vars, codecVars>>
    /\ (InCall ~> pc = "idle")

\* The first call read a non-final first frame and then non-final
\* Continuation frames with empty payloads until the count stopped it.
C32_Witness ==
    /\ pc = "idle"
    /\ reads = MAX_DATAFRAMES_IN_ONE_MESSAGE
    /\ nread = reads
    /\ delivered = << >>
    /\ FailedWith(result, "ProtocolError",
                  "Exceeded count of data frames in one WebSocket message")
    /\ Len(buffer) = MAX_DATAFRAMES_IN_ONE_MESSAGE
    /\ \A i \in 2..Len(buffer) :
         buffer[i].opcode = 0 /\ buffer[i].data = << >>
====
